---- MODULE Spec2Model ----
(***************************************************************************)
(* Model of the ID mapping engine of pypath (src/src/pypath/mapping.py):   *)
(* MapReader (table loading and pickle cache), MappingTable (translation   *)
(* data with last-use bookkeeping) and Mapper (table registry, map_name).  *)
(*                                                                         *)
(* Reading conventions.  The module is in the middle of a refactoring, so  *)
(* a bare name that is unbound in its scope is read as the attribute of    *)
(* the same name on `self` (`param` is `self.param`, `tables` is           *)
(* `self.tables`, `data[key]` is `self.data[key]`, `tbl_name_rev` is       *)
(* `tbl_key_rev`), and the two registry layouts (`self.tables[key]` and    *)
(* `self.tables[ncbi_tax_id][(a, b)]`) are one registry keyed by           *)
(* <<name_type, target_name_type, ncbi_tax_id>>.  Control flow, conditions *)
(* and data flow are taken as written.                                     *)
(*                                                                         *)
(* Identifiers are sequences of one-character strings, so that upper(),    *)
(* capitalize(), split('.'), slicing and the UniProt pattern are computed  *)
(* and not assumed.  Time is in seconds.                                   *)
(***************************************************************************)
EXTENDS Integers, Sequences, FiniteSets, TLC

\* ------------------------------------------------------------------------
\* Characters and the str methods used by mapping.py

LowerChars == <<"a","b","c","d","e","f","g","h","i","j","k","l","m",
                "n","o","p","q","r","s","t","u","v","w","x","y","z">>

UpperChars == <<"A","B","C","D","E","F","G","H","I","J","K","L","M",
                "N","O","P","Q","R","S","T","U","V","W","X","Y","Z">>

DigitChars == <<"0","1","2","3","4","5","6","7","8","9">>

Range(s) == {s[i] : i \in 1..Len(s)}

IndexOf(c, s) == CHOOSE i \in 1..Len(s) : s[i] = c

upper_char(c) == IF c \in Range(LowerChars) THEN UpperChars[IndexOf(c, LowerChars)] ELSE c

lower_char(c) == IF c \in Range(UpperChars) THEN LowerChars[IndexOf(c, UpperChars)] ELSE c

\* str.upper()
upper(name) == [i \in 1..Len(name) |-> upper_char(name[i])]

\* str.lower()
lower(name) == [i \in 1..Len(name) |-> lower_char(name[i])]

\* str.capitalize(): first character upper-cased, the rest lower-cased
capitalize(name) == [i \in 1..Len(name) |-> IF i = 1 THEN upper_char(name[i]) ELSE lower_char(name[i])]

\* name.split(sep)[0]: everything before the first separator
split_0(name, sep) ==
    IF \E i \in 1..Len(name) : name[i] = sep
    THEN SubSeq(name, 1, (CHOOSE i \in 1..Len(name) : name[i] = sep /\ \A j \in 1..(i - 1) : name[j] # sep) - 1)
    ELSE name

\* '%u' % n for the n of xrange(49)
fmt_u(n) == IF n < 10 THEN <<DigitChars[n + 1]>> ELSE <<DigitChars[(n \div 10) + 1], DigitChars[(n % 10) + 1]>>

\* '%s.%u' % (rstem, n)
fmt_stem_n(rstem, n) == rstem \o <<".">> \o fmt_u(n)

\* '%s1' % name
fmt_name1(name) == Append(name, "1")

\* gs[:5]
first5(gs) == SubSeq(gs, 1, IF Len(gs) < 5 THEN Len(gs) ELSE 5)

IsDigit(c) == c \in Range(DigitChars)

IsUpper(c) == c \in Range(UpperChars)

IsUpperOrDigit(c) == IsUpper(c) \/ IsDigit(c)

\* self.reuniprot.match(u): re.match anchors at the start only
reuniprot_match(u) ==
    /\ Len(u) >= 6
    /\ \/ /\ u[1] \in {"O", "P", "Q"}
          /\ IsDigit(u[2])
          /\ IsUpperOrDigit(u[3]) /\ IsUpperOrDigit(u[4]) /\ IsUpperOrDigit(u[5])
          /\ IsDigit(u[6])
       \/ /\ IsUpper(u[1]) /\ u[1] \notin {"O", "P", "Q"}
          /\ IsDigit(u[2])
          /\ IsUpper(u[3])
          /\ IsUpperOrDigit(u[4]) /\ IsUpperOrDigit(u[5])
          /\ IsDigit(u[6])

\* ------------------------------------------------------------------------
\* Identifiers of the scenario, spelled as character sequences

n_TP53 == <<"T","P","5","3">>

n_tp53 == <<"t","p","5","3">>

n_Tp53 == <<"T","p","5","3">>

n_Trp53 == <<"T","r","p","5","3">>

n_TRP53 == <<"T","R","P","5","3">>

n_BRCA2 == <<"B","R","C","A","2">>

n_BRCA2B == <<"B","R","C","A","2","B">>

n_CDK == <<"C","D","K">>

n_CDK1 == <<"C","D","K","1">>

n_P53 == <<"P","5","3">>

n_P04637 == <<"P","0","4","6","3","7">>

n_P51587 == <<"P","5","1","5","8","7">>

n_P06493 == <<"P","0","6","4","9","3">>

n_P02340 == <<"P","0","2","3","4","0">>

n_Q15086 == <<"Q","1","5","0","8","6">>

n_q15086 == <<"q","1","5","0","8","6">>

n_A0A024 == <<"A","0","A","0","2","4">>

n_A0A087 == <<"A","0","A","0","8","7">>

n_NP_1 == <<"N","P","_","1">>

n_NP_1v2 == <<"N","P","_","1",".","2">>

n_NP_2 == <<"N","P","_","2">>

n_NP_2v1 == <<"N","P","_","2",".","1">>

n_NP_2v4 == <<"N","P","_","2",".","4">>

n_NP_9v1 == <<"N","P","_","9",".","1">>

n_MIR21 == <<"M","I","R","2","1">>

n_mir21 == <<"m","i","r","2","1">>

n_mir21a == <<"m","i","r","2","1","a">>

n_MI77 == <<"M","I","7","7">>

n_MIMAT76 == <<"M","I","M","A","T","7","6">>

\* every identifier of the scenario, in a fixed listing order
AllNames == <<n_TP53, n_tp53, n_Tp53, n_Trp53, n_TRP53, n_BRCA2, n_BRCA2B, n_CDK, n_CDK1, n_P53, n_P04637, n_P51587, n_P06493, n_P02340, n_Q15086, n_A0A024, n_NP_1, n_NP_1v2, n_NP_2, n_NP_2v1, n_NP_2v4, n_NP_9v1, n_MIR21, n_mir21, n_mir21a, n_MI77, n_MIMAT76, n_q15086, n_A0A087>>


\* ------------------------------------------------------------------------
\* State

VARIABLES
    tables,     \* Mapper.tables: table key -> MappingTable
    cache,      \* files of the cache directory: file name -> pickled content
    now,        \* time.time()
    swept_at,   \* time at which the last cleanup period elapsed, -1 before
    ord,        \* iteration order of sets in this process (hash seed)
    ncalls,     \* number of map_name calls made so far
    last,       \* arguments and outcome of the latest map_name call
    first,      \* arguments and result of the first map_name call
    reader,     \* outcome of the latest table load (MapReader.load or
                \* Mapper.load_uniprot_mappings)
    written,    \* cache file name -> who wrote its content and from what
    built,      \* source specs built from their source and written to the cache
    files,      \* (source spec, cache file name) pairs computed so far
    pc,         \* per calling thread: the statement it is about to execute
    loc,        \* per calling thread: the arguments and locals of its call
    nfetch      \* table key -> the times its source has been read

\* ------------------------------------------------------------------------
\* Settings and defaults

\* settings 'default_organism'
default_organism == 9606

\* MappingTable.__init__(lifetime = 30)
table_lifetime == 30

\* Mapper.__init__(cleanup_period = 30)
cleanup_period == 30

\* settings 'mapping_use_cache'
mapping_use_cache == TRUE

\* ------------------------------------------------------------------------
\* Bounds of the model

\* seconds by which one clock step advances time.time()
TickSeconds == 15

\* the clock stops here
MaxTime == 60

\* map_name calls in one behaviour
MaxCalls == 3

\* threads calling into one Mapper
NThreads == 2

Threads == 1..NThreads

\* ------------------------------------------------------------------------
\* Environment: registered sources (pypath.maps) and what they yield

mouse == 10090

\* maps.uniprot / maps.misc / maps.mirbase: (name_type, target_name_type)
\* -> mapping parameters
resources ==
    [p \in {<<"genesymbol", "uniprot">>, <<"genesymbol-syn", "uniprot">>,
            <<"genesymbol", "swissprot">>, <<"genesymbol-syn", "swissprot">>,
            <<"trembl", "genesymbol">>, <<"uniprot-sec", "uniprot-pri">>,
            <<"mir-name", "mirbase">>, <<"mir-mat-name", "mirbase">>,
            <<"genesymbol", "entrez">>}
        |-> IF p = <<"genesymbol", "entrez">>
            \* a mapping file that is not on the disk
            THEN [typ |-> "FileMapping", input_exists |-> FALSE, ncbi_tax_id |-> 0, bi_directional |-> FALSE]
            ELSE IF p \in {<<"uniprot-sec", "uniprot-pri">>, <<"mir-name", "mirbase">>,
                      <<"mir-mat-name", "mirbase">>}
            THEN [typ |-> "FileMapping", input_exists |-> TRUE, ncbi_tax_id |-> 0, bi_directional |-> FALSE]
            ELSE [typ |-> "UniprotMapping", input_exists |-> TRUE, ncbi_tax_id |-> 0, bi_directional |-> FALSE]]

\* the (id_a, id_b) pairs the source of a registered pair yields for an organism
SourcePairs(name_types, ncbi_tax_id) ==
    IF ncbi_tax_id = default_organism THEN
        CASE name_types = <<"genesymbol", "uniprot">> ->
                <<<<n_TP53, n_P04637>>, <<n_BRCA2B, n_P51587>>, <<n_CDK1, n_P06493>>>>
          [] name_types = <<"genesymbol-syn", "uniprot">> -> <<<<n_P53, n_P04637>>>>
          [] name_types = <<"genesymbol-syn", "swissprot">> -> <<<<n_P53, n_P04637>>>>
          [] name_types = <<"genesymbol", "swissprot">> -> <<<<n_TP53, n_P04637>>>>
          [] name_types = <<"trembl", "genesymbol">> ->
                <<<<n_A0A024, n_TP53>>, <<n_A0A087, n_TP53>>, <<n_A0A087, n_CDK>>>>
          [] name_types = <<"uniprot-sec", "uniprot-pri">> -> <<<<n_Q15086, n_P04637>>>>
          [] name_types = <<"mir-name", "mirbase">> -> <<<<n_mir21, n_MI77>>>>
          [] name_types = <<"mir-mat-name", "mirbase">> -> <<<<n_mir21a, n_MIMAT76>>>>
          [] OTHER -> <<>>
    ELSE IF ncbi_tax_id = mouse THEN
        CASE name_types = <<"genesymbol", "uniprot">> -> <<<<n_Trp53, n_P02340>>>>
          [] OTHER -> <<>>
    ELSE <<>>

\* Mapper.uniprot_list_names
uniprot_list_names ==
    [t \in {"uniprot_id", "embl", "embl_id", "entrez", "gi", "refseqp",
            "refseqn", "ensembl", "ensg", "ensp", "enst", "hgnc"} |->
        CASE t = "uniprot_id" -> "UniProtKB-ID"
          [] t = "embl" -> "EMBL-CDS"
          [] t = "embl_id" -> "EMBL"
          [] t = "entrez" -> "GeneID"
          [] t = "gi" -> "GI"
          [] t = "refseqp" -> "RefSeq"
          [] t = "refseqn" -> "RefSeq_NT"
          [] t = "ensembl" -> "Ensembl"
          [] t = "ensg" -> "ENSEMBL"
          [] t = "ensp" -> "ENSEMBL_PRO_ID"
          [] t = "enst" -> "ENSEMBL_TRS"
          [] t = "hgnc" -> "HGNC"]

\* records (accession, id type, id) of the UniProt ID mapping file
uniprot_idmap_ftp ==
    <<<<n_P04637, "RefSeq", n_NP_1v2>>,
      <<n_P51587, "RefSeq", n_NP_2v4>>,
      <<n_P04637, "GeneID", <<"7", "1", "5", "7">>>>,
      <<n_P06493, "RefSeq", n_NP_2v1>>,
      <<n_P04637 \o <<"-", "2">>, "GeneID", <<"7", "1", "5", "7">>>>>>

\* ------------------------------------------------------------------------
\* Small helpers for dicts (functions) and lists (sequences)

EmptyDict == <<>>

Get(d, k) == IF k \in DOMAIN d THEN d[k] ELSE {}

\* dict.get(k, 0)
Get0(d, k) == IF k \in DOMAIN d THEN d[k] ELSE 0

\* d[k] = v
Put(d, k, v) == [x \in (DOMAIN d) \cup {k} |-> IF x = k THEN v ELSE d[x]]

PositionIn(x, s) == IF \E i \in 1..Len(s) : s[i] = x THEN CHOOSE i \in 1..Len(s) : s[i] = x ELSE 0

\* x is visited before y when a set holding both is iterated
Before(x, y) ==
    IF ord = "fwd" THEN PositionIn(x, AllNames) <= PositionIn(y, AllNames)
    ELSE PositionIn(x, AllNames) >= PositionIn(y, AllNames)

RECURSIVE Iterate(_)
\* the elements of a set in the order in which `for x in S` visits them
Iterate(S) ==
    IF S = {} THEN <<>>
    ELSE LET x == CHOOSE x \in S : \A y \in S : Before(x, y)
         IN <<x>> \o Iterate(S \ {x})

\* accumulate a pair stream: a_to_b[id_a].add(id_b)
Accumulate(pairs) ==
    [a \in {pairs[i][1] : i \in 1..Len(pairs)} |->
        {pairs[i][2] : i \in {j \in 1..Len(pairs) : pairs[j][1] = a}}]

\* common.md5 of a tuple of fields, kept as the tuple of the fields' texts:
\* two fingerprints are equal exactly when every hashed field is equal
md5(fields) == [i \in 1..Len(fields) |-> ToString(fields[i])]

\* ------------------------------------------------------------------------
\* MappingTable

MappingTable(data, lifetime) == [data |-> data, rev |-> EmptyDict, lifetime |-> lifetime, last_used |-> now]

_used(tbl) == [tbl EXCEPT !.last_used = now]

\* _expired with the comparison including the boundary
_expired_at_lifetime(tbl) == now - tbl.last_used >= tbl.lifetime

_expired(tbl) == now - tbl.last_used > tbl.lifetime

\* MappingTable.__getitem__: marks the table used, returns the row or set()
getitem(tbl, key) == [tbl |-> _used(tbl), val |-> IF key \in DOMAIN tbl.data THEN tbl.data[key] ELSE {}]



\* ------------------------------------------------------------------------
\* MapReader.  A reader is a record of the constructor's arguments and of
\* what load() touches:
\*   id_type_a, id_type_b, source_type, param, ncbi_tax_id
\*   a_to_b, b_to_a  None, or {d} for the dict d
\*   cachefile       the file name computed by setup_cache
\*   cache           the cache directory
\*   fetched, io, raised   as in the Mapper's record below

None == {}

\* bool(x) of a dict or None
Truthy(x) == x # None /\ x # {EmptyDict}

\* d without the key k
Drop(d, k) == [x \in (DOMAIN d) \ {k} |-> d[x]]

\* sorted(param.__dict__.items()), flattened
param_items(param) ==
    IF param.typ = "UniprotListMapping"
    THEN <<"bi_directional", param.bi_directional, "name_type", param.name_type,
           "ncbi_tax_id", param.ncbi_tax_id, "target_name_type", param.target_name_type>>
    ELSE IF param.typ = "FileMapping"
    THEN <<"bi_directional", param.bi_directional, "col_a", param.col_a, "col_b", param.col_b,
           "header", param.header, "input", param.input, "ncbi_tax_id", param.ncbi_tax_id,
           "separator", param.separator>>
    ELSE <<"bi_directional", param.bi_directional, "field", param.field,
           "ncbi_tax_id", param.ncbi_tax_id, "subfield", param.subfield,
           "swissprot", param.swissprot>>

\* the lines of the mapping files, split at the separator
\* The records of the input files, each line split into its fields.
\* records.txt has a line without fields and a line with one field only.
mapping_files ==
    [f \in {"sec_ac.txt", "records.txt"} |->
        IF f = "sec_ac.txt"
        THEN <<<<n_Q15086, n_P04637>>,
               <<n_Q15086, n_P04637>>,
               <<n_A0A024, n_P04637>>,
               <<n_P02340, n_P02340>>>>
        ELSE <<<<n_Q15086, n_P04637>>,
               <<>>,
               <<n_A0A024, n_P04637>>,
               <<n_P02340>>,
               <<n_P02340, n_P02340>>>>]

\* the rows UniProt answers to the query of read_mapping_uniprot, as the
\* list comprehension leaves them: (accession, tokens of the second column)
uniprot_query(field, ncbi_tax_id, swissprot) ==
    IF field # "genes" THEN <<>>
    ELSE IF ncbi_tax_id = default_organism
    THEN <<<<n_P04637, <<n_TP53, n_P53>>>>, <<n_P51587, <<n_BRCA2B>>>>>>
         \o (IF swissprot = "yes" THEN <<>> ELSE <<<<n_A0A024, <<n_TP53>>>>>>)
    ELSE IF ncbi_tax_id = mouse THEN <<<<n_P02340, <<n_Trp53>>>>>>
    ELSE <<>>

MapReader(id_type_a, id_type_b, source_type, param, ncbi_tax_id, cachedir) ==
    [id_type_a |-> id_type_a, id_type_b |-> id_type_b, source_type |-> source_type,
     param |-> param,
     ncbi_tax_id |-> IF ncbi_tax_id # 0 THEN ncbi_tax_id
                     ELSE IF param.ncbi_tax_id # 0 THEN param.ncbi_tax_id
                     ELSE default_organism,
     a_to_b |-> None, b_to_a |-> None,
     cachefile |-> <<>>, cache |-> cachedir, use_cache |-> mapping_use_cache,
     fetched |-> <<>>, io |-> <<>>, raised |-> FALSE,
     remote |-> <<>>, requests |-> 0, answer |-> "none", errors |-> 0]

\* what identifies the table a reader loads
reader_spec(rd) ==
    md5(<<"MapReader", rd.id_type_a, rd.id_type_b, rd.source_type, rd.ncbi_tax_id>>
        \o param_items(rd.param))

setup_cache(rd) ==
    LET mapping_id == md5(<<rd.id_type_a, rd.id_type_b, rd.param.bi_directional, rd.ncbi_tax_id>>
                          \o param_items(rd.param))
    IN [rd EXCEPT !.cachefile = mapping_id,
                  !.io = Append(@, <<"isfile", mapping_id, reader_spec(rd)>>)]

write_cache(rd) ==
    [rd EXCEPT !.cache = Put(@, rd.cachefile, <<rd.a_to_b, rd.b_to_a>>),
               !.io = Append(@, <<"write", rd.cachefile, reader_spec(rd)>>)]

\* the content of a cache file that pickle cannot load
Garbage == [garbage |-> TRUE]

Corrupt(content) == "garbage" \in DOMAIN content

\* the same for a cache file of MapReader, whose content is a pair
GarbagePair == <<>>

CorruptPair(content) == Len(content) # 2

\* pickle.load of a file that is no pickle raises
read_cache_raises(rd) ==
    [rd EXCEPT !.raised = TRUE,
               !.io = Append(@, <<"read", rd.cachefile, reader_spec(rd)>>)]

\* read_cache unpacking the pickled pair in the other order
read_cache_swapped(rd) ==
    [rd EXCEPT !.a_to_b = rd.cache[rd.cachefile][2],
               !.b_to_a = rd.cache[rd.cachefile][1],
               !.io = Append(@, <<"read", rd.cachefile, reader_spec(rd)>>)]

read_cache(rd) ==
    IF CorruptPair(rd.cache[rd.cachefile]) THEN read_cache_raises(rd)
    ELSE [rd EXCEPT !.a_to_b = rd.cache[rd.cachefile][1],
                    !.b_to_a = rd.cache[rd.cachefile][2],
                    !.io = Append(@, <<"read", rd.cachefile, reader_spec(rd)>>)]

RECURSIVE read_mapping_file_lines(_, _, _, _)
\* read_mapping_file, the loop over the lines: acc is (a_to_b pairs,
\* b_to_a pairs, raised)
read_mapping_file_lines(param, infile, i, acc) ==
    IF i > Len(infile) \/ acc.raised THEN acc
    ELSE LET line == infile[i]
             max_col == IF param.col_a > param.col_b THEN param.col_a ELSE param.col_b
         IN IF param.header # 0 /\ i - 1 < param.header
            THEN read_mapping_file_lines(param, infile, i + 1, acc)
            ELSE IF Len(line) < max_col
            THEN read_mapping_file_lines(param, infile, i + 1, acc)
            \* line[col] with col = len(line) is an IndexError
            ELSE IF Len(line) < max_col + 1
            THEN [acc EXCEPT !.raised = TRUE]
            ELSE LET id_a == line[param.col_a + 1]
                     id_b == line[param.col_b + 1]
                 IN read_mapping_file_lines(param, infile, i + 1,
                        [acc EXCEPT !.a_to_b = Append(@, <<id_a, id_b>>),
                                    !.b_to_a = IF param.bi_directional
                                               THEN Append(@, <<id_b, id_a>>) ELSE @])

\* read_mapping_file that never fills the reverse direction
read_mapping_file_forward_only(rd) ==
    LET param == rd.param
        acc == read_mapping_file_lines(param, mapping_files[param.input], 1,
                                       [a_to_b |-> <<>>, b_to_a |-> <<>>, raised |-> FALSE])
        opened == [rd EXCEPT !.fetched = Append(@, <<"file", param.input, rd.ncbi_tax_id>>)]
    IN IF param.input \notin DOMAIN mapping_files THEN rd
       ELSE IF acc.raised THEN [opened EXCEPT !.raised = TRUE]
       ELSE [opened EXCEPT !.a_to_b = {Accumulate(acc.a_to_b)},
                           !.b_to_a = IF param.bi_directional THEN {EmptyDict} ELSE None]

read_mapping_file(rd) ==
    LET param == rd.param
        acc == read_mapping_file_lines(param, mapping_files[param.input], 1,
                                       [a_to_b |-> <<>>, b_to_a |-> <<>>, raised |-> FALSE])
        opened == [rd EXCEPT !.fetched = Append(@, <<"file", param.input, rd.ncbi_tax_id>>)]
    IN IF param.input \notin DOMAIN mapping_files THEN rd
       ELSE IF acc.raised THEN [opened EXCEPT !.raised = TRUE]
       ELSE [opened EXCEPT !.a_to_b = {Accumulate(acc.a_to_b)},
                           !.b_to_a = IF param.bi_directional
                                      THEN {Accumulate(acc.b_to_a)} ELSE None]

\* the (other, accession) pairs of one row, `for other in l[1]`
row_pairs(l) == [j \in 1..Len(l[2]) |-> <<l[2][j], l[1]>>]

RECURSIVE rows_pairs(_, _)
rows_pairs(data, i) ==
    IF i > Len(data) THEN <<>> ELSE row_pairs(data[i]) \o rows_pairs(data, i + 1)

read_mapping_uniprot(rd) ==
    LET param == rd.param
        data == uniprot_query(param.field, rd.ncbi_tax_id, param.swissprot)
        pairs == rows_pairs(data, 1)
        flipped == [j \in 1..Len(pairs) |-> <<pairs[j][2], pairs[j][1]>>]
    IN [rd EXCEPT !.fetched = Append(@, <<"uniprot", param.field, rd.ncbi_tax_id>>),
                  !.a_to_b = {Accumulate(pairs)},
                  !.b_to_a = IF param.bi_directional THEN {Accumulate(flipped)} ELSE None]

\* read, the dispatch on the source type
\* The upload lists service of UniProt.  rd.remote holds what the service
\* answers to the successive requests: "none" for no response, "html" for an
\* error page, "rows" for a table; it answers nothing once the list is over.
\* curl.Curl(url, post = post, ...): one request
Curl(rd) ==
    [rd EXCEPT !.requests = @ + 1,
               !.answer = IF rd.requests < Len(rd.remote) THEN rd.remote[rd.requests + 1]
                          ELSE "none"]

\* `for i in xrange(3)`
list_retries == 3

\* the loop of lines 401-415, entered when the first request had no response
RECURSIVE list_retry(_, _)
list_retry(c, i) ==
    IF i >= list_retries \/ c.answer # "none" THEN c
    ELSE list_retry(Curl(c), i + 1)

\* lines 417-423: no response or an error page is logged and gives ''
list_result(c) ==
    IF c.answer \in {"none", "html"}
    THEN [c EXCEPT !.answer = "", !.errors = @ + 1]
    ELSE c

\* _read_mapping_uniprot_list with one more request before the retries
_read_mapping_uniprot_list_again(rd) == list_result(list_retry(Curl(Curl(rd)), 0))

_read_mapping_uniprot_list(rd) == list_result(list_retry(Curl(rd), 0))

\* the rows of the table the service returns for the pair of name types
uniprot_list_rows == <<<<n_P04637, n_NP_1v2>>, <<n_P51587, n_NP_2v4>>>>

\* `_ = next(...)` of the empty string raises
list_next(c) == IF c.answer = "" THEN [c EXCEPT !.raised = TRUE] ELSE c

\* lines 344-354: the list of accessions, asked for when the target is not
\* 'uniprot'
list_ac_list(rd) ==
    IF rd.param.target_name_type # "uniprot"
    THEN list_next(_read_mapping_uniprot_list(rd))
    ELSE rd

\* lines 356-375
list_data(u) ==
    IF u.raised THEN u
    ELSE [u EXCEPT !.fetched = Append(@, <<"uniprotlist", u.param.name_type, u.ncbi_tax_id>>),
                   !.a_to_b = {Accumulate([j \in 1..Len(uniprot_list_rows) |->
                                    <<uniprot_list_rows[j][2], uniprot_list_rows[j][1]>>])},
                   !.b_to_a = IF u.param.bi_directional
                              THEN {Accumulate(uniprot_list_rows)} ELSE None]

list_table(ac) ==
    IF ac.raised THEN ac ELSE list_data(list_next(_read_mapping_uniprot_list(ac)))

read_mapping_uniprot_list(rd) == list_table(list_ac_list(rd))

\* `lifetime = 300`, the default of MapReader
reader_lifetime == 300

\* get_mapping_tables, lines 149-162: the tables of the data of a reader,
\* None for the reverse table of a reader that is not bi-directional
get_mapping_tables(a_to_b, b_to_a, bi_directional) ==
    <<{MappingTable(d, reader_lifetime) : d \in a_to_b},
      IF bi_directional THEN {MappingTable(d, reader_lifetime) : d \in b_to_a} ELSE None>>

read_source(rd) ==
    IF rd.source_type = "file" THEN read_mapping_file(rd)
    ELSE IF rd.source_type = "uniprot" THEN read_mapping_uniprot(rd)
    ELSE IF rd.source_type = "uniprotlist" THEN read_mapping_uniprot_list(rd)
    ELSE rd

\* read, lines 222-227
\* read without the removal of the cache file
remove_cachefile_never(rd) == rd

remove_cachefile(rd) ==
    IF rd.cachefile \in DOMAIN rd.cache
    THEN [rd EXCEPT !.cache = Drop(@, rd.cachefile),
                    !.io = Append(@, <<"remove", rd.cachefile, reader_spec(rd)>>)]
    ELSE rd

read(rd) == read_source(remove_cachefile(rd))

\* load, lines 184-192: write cache only at successful loading
load_write(fresh) ==
    IF ~fresh.raised /\ Truthy(fresh.a_to_b)
        /\ (~fresh.param.bi_directional \/ Truthy(fresh.b_to_a))
    THEN write_cache(fresh)
    ELSE fresh

\* load, lines 174-192
load_read(cached) ==
    IF cached.raised THEN cached
    ELSE IF ~Truthy(cached.a_to_b) \/ (cached.param.bi_directional /\ ~Truthy(cached.b_to_a))
    THEN load_write(read(cached))
    ELSE cached

\* load, lines 170-172
load_cached(rd) ==
    IF rd.use_cache /\ rd.cachefile \in DOMAIN rd.cache THEN read_cache(rd) ELSE rd

load(rd) == load_read(load_cached(setup_cache(rd)))

\* ------------------------------------------------------------------------
\* Mapper: the registry.  The operators below thread a record `st` through
\* the calls of one handler:
\*   tables, cache   the registry and the cache directory
\*   fetched         the source loads made by this handler, in order
\*   trace           the _map_name lookups made by this handler, in order
\*   tbl             the return value of which_table: {} is None, {key} is
\*                   the table registered under key
\*   res             the mapped names
\*   orig            the mapped names before the UniProt clean-up (`orig`)
\*   pri             the mapped names after primary_uniprot, line 1014
\*   raised          an exception is propagating
\*   net             "up" or "down": whether the remote services answer
\*                   during this handler
\*   met             the kinds of failure met: "missing source", "remote
\*                   failure", "corrupt cache"
\*   io              the cache file operations made by this handler, in order:
\*                   <<operation, file name, source spec>>

get_tax_id(ncbi_tax_id) == IF ncbi_tax_id # 0 THEN ncbi_tax_id ELSE default_organism

get_table_key(name_type, target_name_type, ncbi_tax_id) ==
    <<name_type, target_name_type, get_tax_id(ncbi_tax_id)>>

\* common.swap_dict: {a: {b, ...}} to {b: {a, ...}}
swap_dict(d) ==
    [b \in UNION {d[a] : a \in DOMAIN d} |-> {a \in DOMAIN d : b \in d[a]}]

reverse_mapping(mapping_table) == MappingTable(swap_dict(mapping_table.data), mapping_table.lifetime)

create_reverse(st, key) ==
    IF key \notin DOMAIN st.tables
    THEN [st EXCEPT !.raised = TRUE]
    ELSE LET rev_key == get_table_key(key[2], key[1], key[3])
         IN [st EXCEPT !.tables = Put(@, rev_key, reverse_mapping(st.tables[key]))]

\* genesymbol5: the assignment of the new, empty table
genesymbol5_create(st, tax) ==
    [st EXCEPT !.tables = Put(@, <<"genesymbol5", "uniprot", tax>>,
                              MappingTable(EmptyDict, table_lifetime))]

\* genesymbol5 without the test of the length of the symbol
genesymbol5_fill_every_symbol(st, tax, j) ==
    LET tbl == IF j = 1 THEN st.tables[<<"genesymbol", "uniprot", tax>>].data
               ELSE st.tables[<<"genesymbol-syn", "swissprot", tax>>].data
        tbl_gs5 == st.tables[<<"genesymbol5", "uniprot", tax>>].data
    IN [st EXCEPT !.tables[<<"genesymbol5", "uniprot", tax>>].data =
            [gs5 \in (DOMAIN tbl_gs5) \cup {first5(gs) : gs \in DOMAIN tbl} |->
                Get(tbl_gs5, gs5) \cup UNION {tbl[gs] : gs \in {g \in DOMAIN tbl : first5(g) = gs5}}]]

\* genesymbol5, `for tbl in tbls`: one pass of the outer loop, over
\* tbls[j]; tbl_gs5 is the dict of the registered table
genesymbol5_fill(st, tax, j) ==
    LET tbl == IF j = 1 THEN st.tables[<<"genesymbol", "uniprot", tax>>].data
               ELSE st.tables[<<"genesymbol-syn", "swissprot", tax>>].data
        tbl_gs5 == st.tables[<<"genesymbol5", "uniprot", tax>>].data
        long == {gs \in DOMAIN tbl : Len(gs) >= 5}
    IN [st EXCEPT !.tables[<<"genesymbol5", "uniprot", tax>>].data =
            [gs5 \in (DOMAIN tbl_gs5) \cup {first5(gs) : gs \in long} |->
                Get(tbl_gs5, gs5) \cup UNION {tbl[gs] : gs \in {g \in long : first5(g) = gs5}}]]

genesymbol5(st, ncbi_tax_id) ==
    LET tax == get_tax_id(ncbi_tax_id)
    IN genesymbol5_fill(genesymbol5_fill(genesymbol5_create(st, tax), tax, 1), tax, 2)

\* load_mappings: the statement tables[mapName] = MappingTable(...), which
\* reads the source
load_mappings_table(st, mapName, tax) ==
    IF st.net = "down" /\ resources[mapName].typ = "UniprotMapping"
    \* read_mapping_uniprot, lines 458-471: no answer, and `data.split` of
    \* None raises
    THEN [st EXCEPT !.raised = TRUE, !.met = @ \cup {"remote failure"},
                    !.fetched = Append(@, <<mapName[1], mapName[2], tax>>)]
    ELSE [st EXCEPT !.tables = Put(@, <<mapName[1], mapName[2], tax>>,
                                   MappingTable(Accumulate(SourcePairs(mapName, tax)), table_lifetime)),
                    !.fetched = Append(@, <<mapName[1], mapName[2], tax>>)]

\* load_mappings: the condition under which genesymbol5 is called
genesymbol5_due(st, tax) ==
    /\ <<"genesymbol", "uniprot", tax>> \in DOMAIN st.tables
    /\ <<"genesymbol-syn", "swissprot", tax>> \in DOMAIN st.tables
    /\ <<"genesymbol5", "uniprot", tax>> \notin DOMAIN st.tables

\* load_mappings: the conditions under which a source is passed over
load_mappings_skip(param, tax) ==
    \/ param.typ = "FileMapping" /\ ~param.input_exists
    \/ param.ncbi_tax_id # tax /\ param.typ = "FileMapping"

\* load_mappings, lines 1274-1277, after the assignment of the table
load_mappings_genesymbol5(loaded, tax) ==
    IF ~loaded.raised /\ genesymbol5_due(loaded, tax) THEN genesymbol5(loaded, tax) ELSE loaded

\* load_mappings, lines 1232-1237 and 1255-1260: the source is passed over
\* with a log message, and no table is registered
load_mappings_passed_over(st, param0) ==
    IF param0.typ = "FileMapping" /\ ~param0.input_exists
    THEN [st EXCEPT !.met = @ \cup {"missing source"}]
    ELSE st

\* load_mappings(maplst = {mapName: param0}, ncbi_tax_id)
load_mappings(st, mapName, param0, ncbi_tax_id) ==
    IF load_mappings_skip([param0 EXCEPT !.ncbi_tax_id = get_tax_id(ncbi_tax_id)],
                          get_tax_id(ncbi_tax_id))
    THEN load_mappings_passed_over(st, param0)
    ELSE load_mappings_genesymbol5(load_mappings_table(st, mapName, get_tax_id(ncbi_tax_id)),
                                   get_tax_id(ncbi_tax_id))

\* list.remove(x): drops the first occurrence
ListRemove(L, x) ==
    LET i == PositionIn(x, L)
    IN IF i = 0 THEN L ELSE SubSeq(L, 1, i - 1) \o SubSeq(L, i + 1, Len(L))

\* what identifies a table loaded by load_uniprot_mappings
lum_spec(ac_typ, bi, tax) == <<"load_uniprot_mappings", ac_typ, "uniprot", ToString(bi), ToString(tax)>>

RECURSIVE lum_create(_, _, _, _)
\* load_uniprot_mappings, first loop: an empty MappingTable per type
lum_create(st, ac_types, i, tax) ==
    IF i > Len(ac_types) THEN st
    ELSE lum_create([st EXCEPT !.tables = Put(@, <<ac_types[i], "uniprot", tax>>,
                                               MappingTable(EmptyDict, table_lifetime))],
                    ac_types, i + 1, tax)

RECURSIVE lum_from_cache(_, _, _, _, _)
\* load_uniprot_mappings, second loop: `for ac_typ in ac_types` by list
\* index, while the body removes the cached types from the same list
lum_from_cache(st, ac_types, i, bi, tax) ==
    IF i > Len(ac_types) THEN [st |-> st, ac_types |-> ac_types]
    ELSE LET ac_typ == ac_types[i]
             md5ac == md5(<<ac_typ, "uniprot", bi, tax>>)
             key == <<ac_typ, "uniprot", tax>>
             spec == lum_spec(ac_typ, bi, tax)
         IN IF mapping_use_cache /\ md5ac \in DOMAIN st.cache /\ Corrupt(st.cache[md5ac])
            \* pickle.load raises on a file that is no pickle
            THEN [st |-> [st EXCEPT !.raised = TRUE, !.met = @ \cup {"corrupt cache"},
                                    !.io = @ \o <<<<"isfile", md5ac, spec>>, <<"read", md5ac, spec>>>>],
                  ac_types |-> ac_types]
            ELSE IF mapping_use_cache /\ md5ac \in DOMAIN st.cache
            THEN lum_from_cache(
                    [st EXCEPT !.tables[key] = [@ EXCEPT !.data = st.cache[md5ac].to,
                                                         !.rev = st.cache[md5ac].from],
                               !.io = @ \o <<<<"isfile", md5ac, spec>>, <<"read", md5ac, spec>>>>],
                    ListRemove(ac_types, ac_typ), i + 1, bi, tax)
            ELSE lum_from_cache([st EXCEPT !.io = Append(@, <<"isfile", md5ac, spec>>)],
                                ac_types, i + 1, bi, tax)

\* load_uniprot_mappings, body of the record loop for one record and type
lum_record(tbl, l, ac_typ, bi) ==
    IF Len(l) > 2 /\ uniprot_list_names[ac_typ] = l[2]
    THEN LET other == split_0(l[3], ".")
             uniprot == split_0(l[1], "-")
             to0 == IF l[3] \notin DOMAIN tbl.data THEN Put(tbl.data, other, {}) ELSE tbl.data
             to1 == Put(to0, other, to0[other] \cup {uniprot})
             from0 == IF uniprot \notin DOMAIN tbl.rev THEN Put(tbl.rev, uniprot, {}) ELSE tbl.rev
             from1 == Put(from0, uniprot, from0[uniprot] \cup {other})
         IN [tbl EXCEPT !.data = to1, !.rev = IF bi THEN from1 ELSE tbl.rev]
    ELSE tbl

RECURSIVE lum_records(_, _, _, _, _, _, _)
\* load_uniprot_mappings, `for l in c.result: for ac_typ in ac_types:`
lum_records(st, records, r, ac_types, i, bi, tax) ==
    IF st.raised \/ r > Len(records) THEN st
    ELSE IF i > Len(ac_types) THEN lum_records(st, records, r + 1, ac_types, 1, bi, tax)
    ELSE LET key == <<ac_types[i], "uniprot", tax>>
         IN lum_records([st EXCEPT !.tables[key] = lum_record(@, records[r], ac_types[i], bi)],
                        records, r, ac_types, i + 1, bi, tax)

RECURSIVE lum_write_cache(_, _, _, _, _)
\* load_uniprot_mappings, last loop: pickle.dump of each remaining type
lum_write_cache(st, ac_types, i, bi, tax) ==
    IF i > Len(ac_types) THEN st
    ELSE LET md5ac == md5(<<ac_types[i], bi>>)
             tbl == st.tables[<<ac_types[i], "uniprot", tax>>]
         IN lum_write_cache([st EXCEPT !.cache = Put(@, md5ac, [to |-> tbl.data, from |-> tbl.rev]),
                                       !.io = Append(@, <<"write", md5ac, lum_spec(ac_types[i], bi, tax)>>)],
                            ac_types, i + 1, bi, tax)

\* load_uniprot_mappings, line 1347: the download of the ID mapping file
lum_fetch(st, tax) ==
    IF st.net = "down"
    \* no answer: `for l in c.result` over None raises
    THEN [st EXCEPT !.raised = TRUE, !.met = @ \cup {"remote failure"},
                    !.fetched = Append(@, <<"uniprot_idmap_ftp", "*", tax>>)]
    ELSE [st EXCEPT !.fetched = Append(@, <<"uniprot_idmap_ftp", "*", tax>>)]

\* load_uniprot_mappings, lines 1372-1378
lum_save(filled, ac_types, bi, tax) ==
    IF mapping_use_cache /\ ~filled.raised THEN lum_write_cache(filled, ac_types, 1, bi, tax)
    ELSE filled

\* load_uniprot_mappings, lines 1345-1378: the types not found in the cache
lum_remaining(cached, bi, tax) ==
    IF Len(cached.ac_types) > 0 /\ ~cached.st.raised
    THEN lum_save(lum_records(lum_fetch(cached.st, tax), uniprot_idmap_ftp, 1,
                              cached.ac_types, 1, bi, tax),
                  cached.ac_types, bi, tax)
    ELSE cached.st

load_uniprot_mappings(st, ac_types, bi, ncbi_tax_id) ==
    lum_remaining(lum_from_cache(lum_create(st, ac_types, 1, get_tax_id(ncbi_tax_id)),
                                 ac_types, 1, bi, get_tax_id(ncbi_tax_id)),
                  bi, get_tax_id(ncbi_tax_id))

RECURSIVE which_table(_, _, _, _, _)

\* a call of which_table begins: st.wdepth is the number of calls of
\* which_table that have not returned, st.wdeep the largest it has been
which_table_enter(st) ==
    [st EXCEPT !.wdepth = @ + 1, !.wdeep = IF st.wdepth + 1 > @ THEN st.wdepth + 1 ELSE @]

\* the call returns, or an exception leaves it
which_table_leave(r) == [r EXCEPT !.wdepth = @ - 1]

\* which_table, lines 691-720: `for resource_attr in ['uniprot', 'misc',
\* 'mirbase']`
which_table_resources(st, name_type, target_name_type, ncbi_tax_id) ==
    IF <<name_type, target_name_type>> \in DOMAIN resources
    THEN which_table(load_mappings(st, <<name_type, target_name_type>>,
                                   resources[<<name_type, target_name_type>>], ncbi_tax_id),
                     name_type, target_name_type, FALSE, ncbi_tax_id)
    ELSE IF <<target_name_type, name_type>> \in DOMAIN resources
    \* maplst = {name_types: resources[name_types]} is a KeyError
    THEN [st EXCEPT !.raised = TRUE]
    ELSE [st EXCEPT !.tbl = {}]

\* which_table, lines 722-751: the statement that would register the
\* reader's table is incomplete and names no method; only the lookup remains
which_table_reader(st, name_type, target_name_type, ncbi_tax_id) ==
    IF st.raised \/ st.tbl # {} THEN st
    ELSE which_table(st, name_type, target_name_type, FALSE, ncbi_tax_id)

\* which_table, lines 753-764
which_table_uniprot(st, name_type, target_name_type, ncbi_tax_id) ==
    IF st.raised \/ st.tbl # {} THEN st
    ELSE IF name_type \in DOMAIN uniprot_list_names
    THEN which_table(load_uniprot_mappings(st, <<name_type>>, FALSE, 0),
                     name_type, target_name_type, FALSE, ncbi_tax_id)
    ELSE st

\* which_table, lines 684-689, after create_reverse
which_table_reversed(rev, tbl_key) ==
    IF rev.raised THEN rev ELSE [rev EXCEPT !.tbl = {tbl_key}]

which_table_branches(st, name_type, target_name_type, load_tables, ncbi_tax_id0) ==
    LET ncbi_tax_id == get_tax_id(ncbi_tax_id0)
        tbl_key == get_table_key(name_type, target_name_type, ncbi_tax_id)
        \* as written: the keyword arguments are listed in the other order,
        \* not swapped
        tbl_key_rev == get_table_key(name_type, target_name_type, ncbi_tax_id)
    IN IF st.raised THEN st
       ELSE IF tbl_key \in DOMAIN st.tables THEN [st EXCEPT !.tbl = {tbl_key}]
       ELSE IF tbl_key_rev \in DOMAIN st.tables
       THEN which_table_reversed(create_reverse(st, tbl_key), tbl_key)
       ELSE IF load_tables
       THEN which_table_uniprot(
                which_table_reader(
                    which_table_resources(st, name_type, target_name_type, ncbi_tax_id),
                    name_type, target_name_type, ncbi_tax_id),
                name_type, target_name_type, ncbi_tax_id)
       ELSE [st EXCEPT !.tbl = {}]

which_table(st, name_type, target_name_type, load_tables, ncbi_tax_id0) ==
    IF st.raised THEN st
    ELSE which_table_leave(
            which_table_branches(which_table_enter(st), name_type, target_name_type,
                                 load_tables, ncbi_tax_id0))

\* ------------------------------------------------------------------------
\* Mapper: resolution

\* name_type.startswith('refseq')
RefSeqTypes == {"refseqp", "refseqn"}

\* what `self.trace.append(...)` of line 1131 keeps of one lookup: the
\* name, the two name types and the result
\* the two kinds of value a lookup hands back: `result = []` is a list,
\* `result = tbl[name]` is the set stored in the table
traced(w, name, name_type, target_name_type, result, kind) ==
    [w EXCEPT !.trace = Append(@, <<name, name_type, target_name_type, result, kind>>),
              !.res = result, !.kind = kind]

\* _map_name, lines 1126-1134, with w the record after which_table
_map_name_lookup(w, name, name_type, target_name_type) ==
    LET key == CHOOSE k \in w.tbl : TRUE
    IN IF w.raised THEN traced(w, name, name_type, target_name_type, {}, "list")
       ELSE IF w.tbl = {} \/ name \notin DOMAIN w.tables[key].data
       THEN traced(w, name, name_type, target_name_type, {}, "list")
       ELSE traced([w EXCEPT !.tables[key] = getitem(w.tables[key], name).tbl],
                   name, name_type, target_name_type, getitem(w.tables[key], name).val, "set")

_map_name(st, name, name_type, target_name_type, ncbi_tax_id) ==
    IF st.raised THEN st
    ELSE _map_name_lookup(which_table(st, name_type, target_name_type, TRUE, ncbi_tax_id),
                          name, name_type, target_name_type)

\* mapped_names.update(hit)
update(st, hit) == [hit EXCEPT !.res = st.res \cup hit.res, !.kind = st.kind]

\* mapped_names.update where mapped_names is the list of an empty lookup:
\* a list has no update, the attribute access raises before the probe is made
update_of_list(st) == [st EXCEPT !.raised = TRUE, !.res = {}, !.orig = {}]

RECURSIVE refseq_numbers(_, _, _, _, _, _)
\* map_refseq, `for n in xrange(49)`: mapped_names.update(...)
refseq_numbers(st, rstem, n, name_type, target_name_type, ncbi_tax_id) ==
    IF n >= 49 \/ st.raised THEN st
    ELSE IF st.kind = "list" THEN update_of_list(st)
    ELSE refseq_numbers(
            update(st, _map_name(st, fmt_stem_n(rstem, n), name_type, target_name_type, ncbi_tax_id)),
            rstem, n + 1, name_type, target_name_type, ncbi_tax_id)

\* the attempt on the name cut at its first dot, made in strict mode too
map_refseq_stem_anyway(asis, refseq, name_type, target_name_type, ncbi_tax_id, strict) ==
    IF ~asis.raised /\ asis.res = {}
    THEN _map_name(asis, split_0(refseq, "."), name_type, target_name_type, ncbi_tax_id)
    ELSE asis

\* map_refseq, lines 1086-1098: the attempt on the name cut at its first dot
map_refseq_stem(asis, refseq, name_type, target_name_type, ncbi_tax_id, strict) ==
    IF ~asis.raised /\ asis.res = {} /\ ~strict
    THEN _map_name(asis, split_0(refseq, "."), name_type, target_name_type, ncbi_tax_id)
    ELSE asis

\* map_refseq, lines 1100-1112: the attempts on the numbered versions
map_refseq_versions(stem, refseq, name_type, target_name_type, ncbi_tax_id, strict) ==
    IF ~stem.raised /\ stem.res = {} /\ ~strict
    THEN refseq_numbers(stem, split_0(refseq, "."), 0, name_type, target_name_type, ncbi_tax_id)
    ELSE stem

\* map_refseq without the attempt on the name with the version removed
map_refseq_no_stem(st, refseq, name_type, target_name_type, ncbi_tax_id, strict) ==
    map_refseq_versions(
        _map_name(st, refseq, name_type, target_name_type, ncbi_tax_id),
        refseq, name_type, target_name_type, ncbi_tax_id, strict)

map_refseq(st, refseq, name_type, target_name_type, ncbi_tax_id, strict) ==
    map_refseq_versions(
        map_refseq_stem(
            _map_name(st, refseq, name_type, target_name_type, ncbi_tax_id),
            refseq, name_type, target_name_type, ncbi_tax_id, strict),
        refseq, name_type, target_name_type, ncbi_tax_id, strict)

RECURSIVE map_name(_, _, _, _, _, _)

\* a call of map_name begins: st.depth is the number of calls of map_name
\* that have not returned, st.deep the largest it has been
map_name_enter(st) ==
    [st EXCEPT !.depth = @ + 1, !.deep = IF st.depth + 1 > @ THEN st.depth + 1 ELSE @]

\* the call returns, or an exception leaves it
map_name_leave(r) == [r EXCEPT !.depth = @ - 1]

RECURSIVE primary_uniprot_loop(_, _, _, _)

\* primary_uniprot keeping only the ids the table maps
primary_uniprot_add_mapped_only(pr, lst, i, pri) ==
    primary_uniprot_loop(pr, lst, i + 1, pri \cup pr.res)

\* primary_uniprot, lines 1144-1147, with pr the record after map_name
primary_uniprot_add(pr, lst, i, pri) ==
    primary_uniprot_loop(pr, lst, i + 1,
                         IF Cardinality(pr.res) > 0 THEN pri \cup pr.res ELSE pri \cup {lst[i]})

\* primary_uniprot, `for u in lst`
primary_uniprot_loop(st, lst, i, pri) ==
    IF i > Len(lst) \/ st.raised THEN [st EXCEPT !.res = pri, !.kind = "list"]
    ELSE primary_uniprot_add(map_name(st, lst[i], "uniprot-sec", "uniprot-pri", 0, FALSE),
                             lst, i, pri)

primary_uniprot(st, lst) == primary_uniprot_loop(st, Iterate(lst), 1, {})

RECURSIVE trembl_genes_loop(_, _, _, _, _)

\* trembl_swissprot, line 1169, with m the record after map_name
trembl_genes_set(m, gn, i, ncbi_tax_id) == trembl_genes_loop(m, gn, i + 1, m.res, ncbi_tax_id)

\* trembl_swissprot translating the gene symbols to 'uniprot'
trembl_genes_loop_to_uniprot(st, gn, i, sw, ncbi_tax_id) ==
    IF i > Len(gn) \/ st.raised THEN [st EXCEPT !.res = sw]
    ELSE trembl_genes_set(map_name(st, gn[i], "genesymbol", "uniprot", ncbi_tax_id, FALSE),
                          gn, i, ncbi_tax_id)

\* trembl_swissprot, `for g in gn: sw = self.map_name(g, ...)`
trembl_genes_loop(st, gn, i, sw, ncbi_tax_id) ==
    IF i > Len(gn) \/ st.raised THEN [st EXCEPT !.res = sw]
    ELSE trembl_genes_set(map_name(st, gn[i], "genesymbol", "swissprot", ncbi_tax_id, FALSE),
                          gn, i, ncbi_tax_id)

RECURSIVE trembl_swissprot_loop(_, _, _, _, _)

\* trembl_swissprot, lines 1171-1174, with sw the record after the genes
trembl_swissprot_add(sw, lst, i, sws, ncbi_tax_id) ==
    trembl_swissprot_loop(sw, lst, i + 1,
                          IF Cardinality(sw.res) = 0 THEN sws \cup {lst[i]} ELSE sws \cup sw.res,
                          ncbi_tax_id)

\* trembl_swissprot, lines 1166-1169, with gn the record after map_name
trembl_genes(gn, ncbi_tax_id) == trembl_genes_loop(gn, Iterate(gn.res), 1, {}, ncbi_tax_id)

\* trembl_swissprot, `for tr in lst`
trembl_swissprot_loop(st, lst, i, sws, ncbi_tax_id) ==
    IF i > Len(lst) \/ st.raised THEN [st EXCEPT !.res = sws, !.kind = "list"]
    ELSE trembl_swissprot_add(
            trembl_genes(map_name(st, lst[i], "trembl", "genesymbol", ncbi_tax_id, FALSE),
                         ncbi_tax_id),
            lst, i, sws, ncbi_tax_id)

trembl_swissprot(st, lst, ncbi_tax_id) ==
    trembl_swissprot_loop(st, Iterate(lst), 1, {}, get_tax_id(ncbi_tax_id))

\* map_name, lines 890-912: the first translation attempt
first_lookup(st, name, name_type, target_name_type, ncbi_tax_id, strict) ==
    IF name_type \in RefSeqTypes
    THEN map_refseq(st, name, name_type, target_name_type, ncbi_tax_id, strict)
    ELSE _map_name(st, name, name_type, target_name_type, ncbi_tax_id)

\* map_name, lines 877-912: `if name_type == target_name_type: ... elif ... else`
\* for the calls that do not return at line 883
first_attempt(st, name, name_type, target_name_type, ncbi_tax_id, strict) ==
    IF name_type = target_name_type THEN [st EXCEPT !.res = {name}, !.kind = "set"]
    ELSE first_lookup(st, name, name_type, target_name_type, ncbi_tax_id, strict)

\* `not mapped_names`, with no exception on its way
NotMapped(s) == ~s.raised /\ s.res = {}

\* an attempt made whatever the earlier attempts returned
attempt_unconditional(prev, applies, name, name_type, target_name_type, ncbi_tax_id) ==
    IF ~prev.raised /\ applies
    THEN _map_name(prev, name, name_type, target_name_type, ncbi_tax_id)
    ELSE prev

\* `if not mapped_names [and applies]: mapped_names = self._map_name(...)`
attempt(prev, applies, name, name_type, target_name_type, ncbi_tax_id) ==
    IF NotMapped(prev) /\ applies
    THEN _map_name(prev, name, name_type, target_name_type, ncbi_tax_id)
    ELSE prev

\* the non-strict attempts on a gene symbol without the one on its first
\* five characters
genesymbol_no_genesymbol5(syn, name, target_name_type, ncbi_tax_id, strict) ==
    attempt(syn, ~strict, fmt_name1(name), "genesymbol", target_name_type, ncbi_tax_id)

\* map_name, lines 976-996, with syn the record after the synonym lookup
genesymbol_not_strict(syn, name, target_name_type, ncbi_tax_id, strict) ==
    attempt(attempt(syn, ~strict, fmt_name1(name), "genesymbol", target_name_type, ncbi_tax_id),
            ~strict, name, "genesymbol5", target_name_type, ncbi_tax_id)

\* the attempts on a gene symbol, all of them disabled by strict
genesymbol_attempts_not_strict(prev, name, name_type, target_name_type, ncbi_tax_id, strict) ==
    IF NotMapped(prev) /\ name_type = "genesymbol" /\ ~strict
    THEN genesymbol_not_strict(
            _map_name(prev, name, "genesymbol-syn", target_name_type, ncbi_tax_id),
            name, target_name_type, ncbi_tax_id, strict)
    ELSE prev

\* map_name, lines 955-996: the attempts on a gene symbol
genesymbol_attempts(prev, name, name_type, target_name_type, ncbi_tax_id, strict) ==
    IF NotMapped(prev) /\ name_type = "genesymbol"
    THEN genesymbol_not_strict(
            _map_name(prev, name, "genesymbol-syn", target_name_type, ncbi_tax_id),
            name, target_name_type, ncbi_tax_id, strict)
    ELSE prev

\* name_type not in {'uniprot', 'trembl', 'uniprot-sec'}
NotUniprot(name_type) == name_type \notin {"uniprot", "trembl", "uniprot-sec"}

\* map_name, lines 914-1007: the further attempts
further_attempts(direct, name, name_type, target_name_type, ncbi_tax_id, strict) ==
    attempt(
        genesymbol_attempts(
            attempt(
                attempt(
                    attempt(direct, TRUE, upper(name), name_type, target_name_type, ncbi_tax_id),
                    NotUniprot(name_type), capitalize(name), name_type, target_name_type, ncbi_tax_id),
                NotUniprot(name_type), lower(name), name_type, target_name_type, ncbi_tax_id),
            name, name_type, target_name_type, ncbi_tax_id, strict),
        name_type = "mir-mat-name", name, "mir-name", target_name_type, ncbi_tax_id)

\* the names after the bridge, whatever their format
uniprot_format_unfiltered(swissprot, orig) ==
    [swissprot EXCEPT !.res = IF swissprot.raised THEN {} ELSE swissprot.res,
                      !.orig = orig]

\* map_name, lines 1024-1029: the names of UniProt format
uniprot_format(swissprot, orig) ==
    [swissprot EXCEPT !.res = IF swissprot.raised THEN {}
                              ELSE {u \in swissprot.res : reuniprot_match(u)},
                      !.orig = orig, !.kind = "set"]

\* map_name, line 1017, with primary the record after primary_uniprot
uniprot_swissprot(primary, ncbi_tax_id) ==
    [trembl_swissprot(primary, primary.res, ncbi_tax_id) EXCEPT !.pri = primary.res]

\* map_name, lines 1009-1031: the extra steps when the target is UniProt
uniprot_cleanup(mapped, target_name_type, ncbi_tax_id) ==
    IF target_name_type = "uniprot" /\ ~mapped.raised
    THEN uniprot_format(uniprot_swissprot(primary_uniprot(mapped, mapped.res), ncbi_tax_id),
                        mapped.res)
    ELSE [mapped EXCEPT !.res = IF mapped.raised THEN {} ELSE mapped.res,
                        !.orig = mapped.res]

\* map_name without the test for equal name types
map_name_no_same_type(st, name, name_type, target_name_type, ncbi_tax_id0, strict) ==
    IF st.raised THEN st
    ELSE map_name_leave(
            uniprot_cleanup(
                further_attempts(
                    first_lookup(map_name_enter(st), name, name_type, target_name_type,
                                 get_tax_id(ncbi_tax_id0), strict),
                    name, name_type, target_name_type, get_tax_id(ncbi_tax_id0), strict),
                target_name_type, get_tax_id(ncbi_tax_id0)))

map_name(st, name, name_type, target_name_type, ncbi_tax_id0, strict) ==
    IF st.raised THEN st
    ELSE IF name_type = target_name_type /\ target_name_type # "uniprot"
    THEN map_name_leave([map_name_enter(st) EXCEPT !.res = {name}, !.orig = {name}, !.kind = "set"])
    ELSE map_name_leave(
            uniprot_cleanup(
                further_attempts(
                    first_attempt(map_name_enter(st), name, name_type, target_name_type,
                                  get_tax_id(ncbi_tax_id0), strict),
                    name, name_type, target_name_type, get_tax_id(ncbi_tax_id0), strict),
                target_name_type, get_tax_id(ncbi_tax_id0)))

\* set.union(<generator expression>), lines 865 and 1049: the method is taken
\* from the class, so its first argument must be a set; with a generator in
\* its place the call raises TypeError before the generator yields anything
set_union(st) == [st EXCEPT !.raised = TRUE, !.res = {}, !.orig = {}]

\* map_name, lines 861-875: name_type is a list, set or tuple
map_name_types(st, name, name_types, target_name_type, ncbi_tax_id, strict) ==
    IF st.raised THEN st ELSE set_union(st)

\* map_names, lines 1034-1061
map_names(st, names, name_type, target_name_type, ncbi_tax_id, strict) ==
    IF st.raised THEN st ELSE set_union(st)

\* the record a handler starts from
Start == [tables |-> tables, cache |-> cache, fetched |-> <<>>, trace |-> <<>>,
          tbl |-> {}, res |-> {}, orig |-> {}, pri |-> {}, raised |-> FALSE, io |-> <<>>,
          net |-> "up", met |-> {}, kind |-> "set",
          depth |-> 0, deep |-> 0, wdepth |-> 0, wdeep |-> 0]



\* ------------------------------------------------------------------------
\* Handlers of the Mapper as actions

vars == <<tables, cache, now, swept_at, ord, ncalls, last, first, reader, written, built, files,
          pc, loc, nfetch>>

\* the state of the calling threads
threads == <<pc, loc, nfetch>>

\* the bookkeeping of the table loads
loads == <<reader, written, built, files>>

NoLoad == [kind |-> "none"]

NoArgs == [name_type |-> "", target_name_type |-> "", i |-> 0]

NoCall == [op |-> "none", name |-> <<>>, name_type |-> "", target_name_type |-> "",
           many |-> <<>>, ncbi_tax_id |-> 0, strict |-> FALSE, res |-> {}, orig |-> {}, pri |-> {},
           raised |-> FALSE, trace |-> <<>>, fetched |-> <<>>, met |-> {}, kind |-> "set",
           depth |-> 0, deep |-> 0, wdepth |-> 0, wdeep |-> 0]

Init ==
    /\ tables = EmptyDict
    /\ cache = EmptyDict
    /\ now = 0
    /\ swept_at = -1
    /\ ord \in {"fwd", "rev"}
    /\ ncalls = 0
    /\ last = NoCall
    /\ first = NoCall
    /\ reader = NoLoad
    /\ written = EmptyDict
    /\ built = {}
    /\ files = {}
    /\ pc = [t \in Threads |-> "idle"]
    /\ loc = [t \in Threads |-> NoArgs]
    /\ nfetch = EmptyDict

\* one call of Mapper.map_name with a single name type, from the record st0
map_name_call_from(st0, name, name_type, target_name_type, ncbi_tax_id, strict) ==
    /\ ncalls < MaxCalls
    /\ \E r \in {map_name(st0, name, name_type, target_name_type, ncbi_tax_id, strict)} :
          /\ tables' = r.tables
          /\ cache' = r.cache
          /\ last' = [op |-> "map_name", name |-> name, name_type |-> name_type,
                      target_name_type |-> target_name_type, many |-> <<>>,
                      ncbi_tax_id |-> ncbi_tax_id,
                      strict |-> strict, res |-> r.res, orig |-> r.orig, pri |-> r.pri,
                      raised |-> r.raised, trace |-> r.trace, fetched |-> r.fetched, met |-> r.met,
                     kind |-> r.kind, depth |-> r.depth, deep |-> r.deep,
                     wdepth |-> r.wdepth, wdeep |-> r.wdeep]
    /\ ncalls' = ncalls + 1
    /\ UNCHANGED <<now, swept_at, ord, loads, threads>>

\* the names, name types and organisms callers translate in this scenario
map_name_call(name, name_type, target_name_type, ncbi_tax_id, strict) ==
    map_name_call_from(Start, name, name_type, target_name_type, ncbi_tax_id, strict)

CallNames == {n_tp53, n_NP_1v2}

CallNameTypes == {"genesymbol", "refseqp", "uniprot"}

CallTargets == {"uniprot", "genesymbol", "refseqp"}

MapName ==
    \E name \in CallNames, name_type \in CallNameTypes, target_name_type \in CallTargets,
       strict \in BOOLEAN :
        /\ map_name_call(name, name_type, target_name_type, 0, strict)
        /\ UNCHANGED first

Next == MapName

Spec == Init /\ [][Next]_vars

\* The fallback chain: calls chosen so that each attempt of map_name is the
\* first to succeed in some call: <<name, name type, target, organism>>
ChainCalls ==
    {<<n_TP53, "genesymbol", "uniprot", 0>>, <<n_tp53, "genesymbol", "uniprot", 0>>,
     <<n_TRP53, "genesymbol", "uniprot", mouse>>, <<n_MIR21, "mir-name", "mirbase", 0>>,
     <<n_P53, "genesymbol", "uniprot", 0>>, <<n_P53, "genesymbol", "swissprot", 0>>,
     <<n_CDK, "genesymbol", "uniprot", 0>>, <<n_BRCA2, "genesymbol", "uniprot", 0>>,
     <<n_mir21, "mir-mat-name", "mirbase", 0>>, <<n_NP_1v2, "refseqp", "uniprot", 0>>,
     <<n_NP_9v1, "refseqp", "uniprot", 0>>, <<n_Q15086, "uniprot", "uniprot", 0>>,
     <<n_q15086, "uniprot", "uniprot", 0>>, <<n_P04637, "uniprot", "uniprot", 0>>,
     <<n_A0A024, "uniprot", "uniprot", 0>>, <<n_A0A087, "uniprot", "uniprot", 0>>,
     <<n_MI77, "mirbase", "mir-name", 0>>, <<n_NP_1v2, "refseqp", "uniprot", mouse>>}

MapNameChain ==
    \E c \in ChainCalls, strict \in BOOLEAN :
        /\ map_name_call(c[1], c[2], c[3], c[4], strict)
        /\ UNCHANGED first

\* the outcome r of a call with a collection argument, kept as the latest
\* call
collection_call(op, r, name, name_type, target_name_type, many, strict) ==
    /\ ncalls < MaxCalls
    /\ tables' = r.tables
    /\ cache' = r.cache
    /\ last' = [op |-> op, name |-> name, name_type |-> name_type,
                target_name_type |-> target_name_type, many |-> many, ncbi_tax_id |-> 0,
                strict |-> strict, res |-> r.res, orig |-> r.orig, pri |-> r.pri,
                raised |-> r.raised, trace |-> r.trace, fetched |-> r.fetched, met |-> r.met,
                     kind |-> r.kind, depth |-> r.depth, deep |-> r.deep,
                     wdepth |-> r.wdepth, wdeep |-> r.wdeep]
    /\ ncalls' = ncalls + 1
    /\ UNCHANGED <<now, swept_at, ord, first, loads, threads>>

\* the collections of name types and of names callers pass
NameTypeLists == {<<"genesymbol">>, <<"genesymbol", "genesymbol-syn">>,
                  <<"genesymbol", "genesymbol-syn", "refseqp">>}

NameLists == {<<>>, <<n_TP53>>, <<n_TP53, n_P53>>, <<n_TP53, n_NP_9v1, n_P53>>}

\* Mapper.map_name with a collection of name types
MapNameTypes ==
    \E name \in {n_TP53, n_P53}, name_types \in NameTypeLists, strict \in BOOLEAN :
        \E r \in {map_name_types(Start, name, name_types, "uniprot", 0, strict)} :
            collection_call("map_name_types", r, name, "", "uniprot", name_types, strict)

\* Mapper.map_names
MapNames ==
    \E names \in NameLists, name_type \in {"genesymbol", "refseqp"}, strict \in BOOLEAN :
        \E r \in {map_names(Start, names, name_type, "uniprot", 0, strict)} :
            collection_call("map_names", r, <<>>, name_type, "uniprot", names, strict)

NextChain == MapNameChain \/ MapNameTypes \/ MapNames

SpecChain == Init /\ [][NextChain]_vars

\* Failures: a mapping file that is missing, a remote service that does not
\* answer during a call, a file of the cache directory that is no pickle
FaultCalls ==
    {<<n_TP53, "genesymbol", "entrez">>, <<n_NP_1v2, "refseqp", "uniprot">>,
     <<n_TP53, "genesymbol", "uniprot">>, <<n_NP_1v2, "refseqp", "genesymbol">>}

MapNameFault ==
    \E c \in FaultCalls, net \in {"up", "down"}, strict \in BOOLEAN :
        /\ map_name_call_from([Start EXCEPT !.net = net], c[1], c[2], c[3], 0, strict)
        /\ UNCHANGED first

\* the cache files load_uniprot_mappings looks for in this scenario
CacheFilesRead == {md5(<<"refseqp", "uniprot", FALSE, default_organism>>)}

\* the environment leaves garbage in a file of the cache directory
\* a cache file of MapReader is named after the types, the organism and
\* the items of the parameters; one of load_uniprot_mappings after fewer fields
ReaderFile(f) == Len(f) > 4

Unreadable(f) == IF ReaderFile(f) THEN CorruptPair(cache[f]) ELSE Corrupt(cache[f])

CorruptCache ==
    \E f \in (DOMAIN cache) \cup CacheFilesRead :
        /\ (f \in DOMAIN cache => ~Unreadable(f))
        /\ cache' = Put(cache, f, IF ReaderFile(f) THEN GarbagePair ELSE Garbage)
        /\ UNCHANGED <<tables, now, swept_at, ord, ncalls, last, first, loads, threads>>

\* Table lifetime: the clock, the cleanup period and a few lookups

Tick ==
    /\ now + TickSeconds <= MaxTime
    /\ now' = now + TickSeconds
    /\ UNCHANGED <<tables, cache, swept_at, ord, ncalls, last, first, loads, threads>>

\* removes every table of the registry
cleanup_removes_all == EmptyDict

\* The registry after a cleanup period has elapsed.  Mapper.__init__ takes
\* `cleanup_period` and neither stores it nor schedules a job with it
\* (`timeloop` is imported and not used), and nothing calls
\* MappingTable._expired: the registry is left as it is.
cleanup == tables

CleanupPeriod ==
    /\ now >= (IF swept_at < 0 THEN 0 ELSE swept_at) + cleanup_period
    /\ swept_at' = now
    /\ tables' = cleanup
    /\ UNCHANGED <<cache, now, ord, ncalls, last, first, loads, threads>>

EvictNames == {n_TP53, n_CDK}

MapNameEvict ==
    \E name \in EvictNames :
        /\ map_name_call(name, "genesymbol", "swissprot", 0, TRUE)
        /\ UNCHANGED first

NextEvict == Tick \/ CleanupPeriod \/ MapNameEvict

SpecEvict == Init /\ [][NextEvict]_vars

\* Repeated calls: gene symbol calls, the first call of the behaviour is
\* remembered so that a later call with the same arguments can be compared

DetNames == {n_BRCA2, n_P53}

DetNameTypes == {"genesymbol", "genesymbol-syn"}

DetTargets == {"uniprot", "swissprot"}

MapNameDet ==
    \E name \in DetNames, name_type \in DetNameTypes, target_name_type \in DetTargets,
       strict \in BOOLEAN :
        /\ map_name_call(name, name_type, target_name_type, 0, strict)
        /\ first' = IF ncalls = 0 THEN last' ELSE first

NextDet == MapNameDet

SpecDet == Init /\ [][NextDet]_vars



\* ------------------------------------------------------------------------
\* Table loads through the cache: MapReader.load and
\* Mapper.load_uniprot_mappings, each by a newly constructed object

\* table loads in one behaviour
MaxLoads == 3

\* the cache file operations `op` in a handler's record of them
Ops(io, op) == {i \in 1..Len(io) : io[i][1] = op}

\* the bookkeeping after a handler that made the cache file operations io,
\* holding the pair (a_to_b, b_to_a) from memory when it wrote
Written(io, pair) ==
    LET w == Ops(io, "write")
        gone == {io[i][2] : i \in Ops(io, "remove")}
        kept == [f \in (DOMAIN written) \ gone |-> written[f]]
    IN [f \in (DOMAIN kept) \cup {io[i][2] : i \in w} |->
            IF \E i \in w : io[i][2] = f
            THEN [spec |-> io[CHOOSE i \in w : io[i][2] = f /\ \A k \in w : io[k][2] = f => k <= i][3],
                  pair |-> pair]
            ELSE kept[f]]

Bookkeeping(kind, specs, io, pair, fetched, raised, setting) ==
    /\ reader' = [kind |-> kind, specs |-> specs, use_cache |-> setting,
                  known |-> specs \subseteq built,
                  from_cache |-> \A sp \in specs : \E i \in Ops(io, "read") : io[i][3] = sp,
                  file |-> {io[i][2] : i \in Ops(io, "read")},
                  removed |-> {io[i][2] : i \in Ops(io, "remove")},
                  own |-> {io[i][2] : i \in Ops(io, "isfile")},
                  pair |-> pair, fetched |-> fetched, raised |-> raised]
    /\ written' = Written(io, pair)
    /\ built' = built \cup {io[i][3] : i \in Ops(io, "write")}
    /\ files' = files \cup {<<io[i][3], io[i][2]>> : i \in Ops(io, "isfile") \cup Ops(io, "write")}

\* MapReader(...).load() by a new reader
\* self.use_cache = settings.get('mapping_use_cache'), with the setting as it
\* is when the load starts
use_cache_setting(rd, setting) == [rd EXCEPT !.use_cache = setting]

reader_load(id_type_a, id_type_b, source_type, param, setting) ==
    /\ ncalls < MaxLoads
    /\ \E rd \in {load(use_cache_setting(
                        MapReader(id_type_a, id_type_b, source_type, param, 0, cache), setting))} :
          /\ cache' = rd.cache
          /\ Bookkeeping("MapReader", {reader_spec(rd)}, rd.io, <<rd.a_to_b, rd.b_to_a>>,
                         rd.fetched # <<>>, rd.raised, setting)
    /\ ncalls' = ncalls + 1
    /\ UNCHANGED <<tables, now, swept_at, ord, last, first, threads>>

\* the organisms of the scenario; 0 is no organism given
Organisms == {0, mouse}

ReaderLoadUniprot ==
    \E ncbi_tax_id \in Organisms, bi \in BOOLEAN :
        reader_load("genesymbol", "uniprot", "uniprot",
                    [typ |-> "UniprotMapping", field |-> "genes", subfield |-> "PREFERRED",
                     swissprot |-> "", bi_directional |-> bi, ncbi_tax_id |-> ncbi_tax_id],
                    mapping_use_cache)

ReaderLoadFile ==
    \E bi \in BOOLEAN, header \in {0, 1}, setting \in BOOLEAN :
        reader_load("uniprot-sec", "uniprot-pri", "file",
                    [typ |-> "FileMapping", input |-> "sec_ac.txt", col_a |-> 0, col_b |-> 1,
                     separator |-> "", header |-> header, bi_directional |-> bi,
                     ncbi_tax_id |-> default_organism],
                    setting)

\* Mapper().load_uniprot_mappings(ac_types, bi, ncbi_tax_id) by a new Mapper
\* the lists of name types loaded; the ID mapping file has no EMBL-CDS line
LoadedTypes == {<<"refseqp">>, <<"refseqp", "entrez">>, <<"embl">>}

LoadUniprotMappings ==
    \E ac_types \in LoadedTypes, bi \in BOOLEAN,
       ncbi_tax_id \in Organisms :
        /\ ncalls < MaxLoads
        /\ \E r \in {load_uniprot_mappings([Start EXCEPT !.tables = EmptyDict],
                                            ac_types, bi, ncbi_tax_id)} :
              /\ tables' = r.tables
              /\ cache' = r.cache
              /\ Bookkeeping("load_uniprot_mappings",
                             {lum_spec(ac_types[i], bi, get_tax_id(ncbi_tax_id)) :
                                i \in 1..Len(ac_types)},
                             r.io, <<>>, r.fetched # <<>>, r.raised, mapping_use_cache)
        /\ ncalls' = ncalls + 1
        /\ UNCHANGED <<now, swept_at, ord, last, first, threads>>

\* the load of a file with incomplete records
ReaderLoadRecords ==
    \E bi \in BOOLEAN, header \in {0, 4} :
        reader_load("uniprot-sec", "uniprot-pri", "file",
                    [typ |-> "FileMapping", input |-> "records.txt", col_a |-> 0, col_b |-> 1,
                     separator |-> "", header |-> header, bi_directional |-> bi,
                     ncbi_tax_id |-> default_organism],
                    mapping_use_cache)

\* The cache directory already holds mapping files of load_uniprot_mappings
\* under the names its reading loop looks for.
\* the name types with such a file, for the default organism and bi = False
PickledTypes == {"refseqp", "entrez"}

\* the name the reading loop gives the file of a type, lines 1338-1339
lum_cachefile(ac_typ, bi, tax) == md5(<<ac_typ, "uniprot", bi, tax>>)

\* the mapping of a type as a load of the type builds it
lum_pickle(ac_typ) ==
    LET tbl == load_uniprot_mappings(
                   [tables |-> EmptyDict, cache |-> EmptyDict, fetched |-> <<>>, trace |-> <<>>,
                    tbl |-> {}, res |-> {}, orig |-> {}, pri |-> {}, raised |-> FALSE,
                    io |-> <<>>, net |-> "up", met |-> {}, kind |-> "set",
                    depth |-> 0, deep |-> 0, wdepth |-> 0, wdeep |-> 0],
                   <<ac_typ>>, FALSE, 0).tables[<<ac_typ, "uniprot", default_organism>>]
    IN [to |-> tbl.data, from |-> tbl.rev]

PlacePickle ==
    \E ac_typ \in PickledTypes :
        /\ lum_cachefile(ac_typ, FALSE, default_organism) \notin DOMAIN cache
        /\ cache' = Put(cache, lum_cachefile(ac_typ, FALSE, default_organism), lum_pickle(ac_typ))
        /\ UNCHANGED <<tables, now, swept_at, ord, ncalls, last, first, loads, threads>>

NextPickle == PlacePickle \/ LoadUniprotMappings

SpecPickle == Init /\ [][NextPickle]_vars

NextCache == ReaderLoadUniprot \/ ReaderLoadFile \/ LoadUniprotMappings \/ ReaderLoadRecords

SpecCache == Init /\ [][NextCache]_vars

\* The upload lists service: the answers to at most MaxAnswers requests
MaxAnswers == 4

Answers == {"none", "html", "rows"}

\* the loads of one behaviour
MaxListLoads == 1

Remote == UNION {[1..n -> Answers] : n \in 0..MaxAnswers}

remote_service(rd, answers) == [rd EXCEPT !.remote = answers]

\* MapReader(source_type = 'uniprotlist').load(), lines 165-193 and 331-375,
\* with the parameters which_table gives it (lines 728-740)
ReaderLoadList ==
    \E target_name_type \in {"uniprot", "genesymbol"}, answers \in Remote :
        /\ ncalls < MaxListLoads
        /\ \E rd \in {load(remote_service(
                            MapReader("refseqp", target_name_type, "uniprotlist",
                                      [typ |-> "UniprotListMapping", name_type |-> "refseqp",
                                       target_name_type |-> target_name_type,
                                       bi_directional |-> FALSE,
                                       ncbi_tax_id |-> default_organism],
                                      0, cache),
                            answers))} :
              /\ cache' = rd.cache
              /\ reader' = [kind |-> "uniprotlist", remote |-> answers,
                            target_name_type |-> target_name_type,
                            requests |-> rd.requests, errors |-> rd.errors,
                            raised |-> rd.raised, loaded |-> Truthy(rd.a_to_b),
                            from_cache |-> Ops(rd.io, "read") # {}]
              /\ written' = Written(rd.io, <<rd.a_to_b, rd.b_to_a>>)
              /\ built' = built \cup {rd.io[i][3] : i \in Ops(rd.io, "write")}
              /\ files' = files \cup {<<rd.io[i][3], rd.io[i][2]>> :
                                        i \in Ops(rd.io, "isfile") \cup Ops(rd.io, "write")}
        /\ ncalls' = ncalls + 1
        /\ UNCHANGED <<tables, now, swept_at, ord, last, first, threads>>

NextList == ReaderLoadList

SpecList == Init /\ [][NextList]_vars

\* Failures, with the loads of a reader among the steps
NextFault == CorruptCache \/ MapNameFault \/ MapNames \/ ReaderLoadFile

SpecFault == Init /\ [][NextFault]_vars


\* ------------------------------------------------------------------------
\* Threads calling which_table on one Mapper.  Nothing in which_table,
\* load_mappings, genesymbol5 or load_uniprot_mappings takes a lock, so
\* the threads interleave between statements.

\* the (name_type, target_name_type) pairs the threads ask for
ThreadPairs == {<<"refseqp", "uniprot">>, <<"genesymbol", "uniprot">>,
                <<"genesymbol-syn", "swissprot">>, <<"genesymbol5", "uniprot">>}

Key(t) == get_table_key(loc[t].name_type, loc[t].target_name_type, 0)

Goto(t, label) == pc' = [pc EXCEPT ![t] = label]

Fetched(key) == nfetch' = Put(nfetch, key, Get0(nfetch, key) + 1)

\* a thread enters which_table(name_type, target_name_type)
which_table_call(t) ==
    /\ pc[t] = "idle"
    /\ ncalls < MaxCalls
    /\ ncalls' = ncalls + 1
    /\ \E p \in ThreadPairs :
        loc' = [loc EXCEPT ![t] = [name_type |-> p[1], target_name_type |-> p[2], i |-> 0]]
    /\ Goto(t, "which_table")
    /\ UNCHANGED <<tables, cache, nfetch>>

\* which_table to the loop over the resources: the table is registered,
\* or a registered source is to be loaded, or neither
which_table_lookup(t) ==
    /\ pc[t] = "which_table"
    /\ IF Key(t) \in DOMAIN tables THEN Goto(t, "return")
       ELSE IF <<loc[t].name_type, loc[t].target_name_type>> \in DOMAIN resources
       THEN Goto(t, "load_mappings")
       ELSE Goto(t, "which_table_2")
    /\ UNCHANGED <<tables, cache, loc, nfetch, ncalls>>

\* which_table, lines 746-751: the second look into the registry
which_table_lookup_2(t) ==
    /\ pc[t] = "which_table_2"
    /\ IF Key(t) \in DOMAIN tables THEN Goto(t, "return")
       ELSE IF loc[t].name_type \in DOMAIN uniprot_list_names THEN Goto(t, "lum_create")
       ELSE Goto(t, "return")
    /\ UNCHANGED <<tables, cache, loc, nfetch, ncalls>>

\* load_mappings up to the assignment of the table
thread_load_mappings(t) ==
    /\ pc[t] = "load_mappings"
    /\ LET mapName == <<loc[t].name_type, loc[t].target_name_type>>
           tax == get_tax_id(0)
           param == [resources[mapName] EXCEPT !.ncbi_tax_id = tax]
       IN IF load_mappings_skip(param, tax)
          THEN Goto(t, "return") /\ UNCHANGED <<tables, nfetch>>
          ELSE \E loaded \in {load_mappings_table(Start, mapName, tax)} :
               /\ tables' = loaded.tables
               /\ Fetched(Key(t))
               /\ IF genesymbol5_due(loaded, tax) THEN Goto(t, "genesymbol5")
                  ELSE Goto(t, "return")
    /\ UNCHANGED <<cache, loc, ncalls>>

thread_genesymbol5_create(t) ==
    /\ pc[t] = "genesymbol5"
    /\ tables' = genesymbol5_create(Start, get_tax_id(0)).tables
    /\ loc' = [loc EXCEPT ![t].i = 1]
    /\ Goto(t, "genesymbol5_fill")
    /\ UNCHANGED <<cache, nfetch, ncalls>>

thread_genesymbol5_fill(t) ==
    /\ pc[t] = "genesymbol5_fill"
    /\ tables' = genesymbol5_fill(Start, get_tax_id(0), loc[t].i).tables
    /\ loc' = [loc EXCEPT ![t].i = @ + 1]
    /\ IF loc[t].i >= 2 THEN Goto(t, "return") ELSE Goto(t, "genesymbol5_fill")
    /\ UNCHANGED <<cache, nfetch, ncalls>>

thread_lum_create(t) ==
    /\ pc[t] = "lum_create"
    /\ tables' = lum_create(Start, <<loc[t].name_type>>, 1, get_tax_id(0)).tables
    /\ Goto(t, "lum_from_cache")
    /\ UNCHANGED <<cache, loc, nfetch, ncalls>>

thread_lum_from_cache(t) ==
    /\ pc[t] = "lum_from_cache"
    /\ \E r \in {lum_from_cache(Start, <<loc[t].name_type>>, 1, FALSE, get_tax_id(0))} :
          /\ tables' = r.st.tables
          /\ IF Len(r.ac_types) > 0 THEN Goto(t, "lum_fetch") ELSE Goto(t, "return")
    /\ UNCHANGED <<cache, loc, nfetch, ncalls>>

\* curl.Curl(url): the download of the ID mapping file
thread_lum_fetch(t) ==
    /\ pc[t] = "lum_fetch"
    /\ Fetched(Key(t))
    /\ loc' = [loc EXCEPT ![t].i = 1]
    /\ Goto(t, "lum_records")
    /\ UNCHANGED <<tables, cache, ncalls>>

\* one pass of `for l in c.result`
thread_lum_record(t) ==
    /\ pc[t] = "lum_records"
    /\ IF loc[t].i > Len(uniprot_idmap_ftp)
       THEN Goto(t, "lum_write_cache") /\ UNCHANGED <<tables, loc>>
       ELSE /\ tables' = [tables EXCEPT ![Key(t)] =
                            lum_record(@, uniprot_idmap_ftp[loc[t].i], loc[t].name_type, FALSE)]
            /\ loc' = [loc EXCEPT ![t].i = @ + 1]
            /\ Goto(t, "lum_records")
    /\ UNCHANGED <<cache, nfetch, ncalls>>

thread_lum_write_cache(t) ==
    /\ pc[t] = "lum_write_cache"
    /\ cache' = IF mapping_use_cache
                THEN lum_write_cache(Start, <<loc[t].name_type>>, 1, FALSE, get_tax_id(0)).cache
                ELSE cache
    /\ Goto(t, "return")
    /\ UNCHANGED <<tables, loc, nfetch, ncalls>>

\* which_table(load = False) and `return tbl`
which_table_return(t) ==
    /\ pc[t] = "return"
    /\ Goto(t, "idle")
    /\ UNCHANGED <<tables, cache, loc, nfetch, ncalls>>

\* what no statement of a calling thread touches
untouched == <<now, swept_at, ord, last, first, loads>>

WhichTableCall == \E t \in Threads : which_table_call(t) /\ UNCHANGED untouched

WhichTableLookup == \E t \in Threads : which_table_lookup(t) /\ UNCHANGED untouched

WhichTableLookup2 == \E t \in Threads : which_table_lookup_2(t) /\ UNCHANGED untouched

ThreadLoadMappings == \E t \in Threads : thread_load_mappings(t) /\ UNCHANGED untouched

ThreadGenesymbol5Create == \E t \in Threads : thread_genesymbol5_create(t) /\ UNCHANGED untouched

ThreadGenesymbol5Fill == \E t \in Threads : thread_genesymbol5_fill(t) /\ UNCHANGED untouched

ThreadLumCreate == \E t \in Threads : thread_lum_create(t) /\ UNCHANGED untouched

ThreadLumFromCache == \E t \in Threads : thread_lum_from_cache(t) /\ UNCHANGED untouched

ThreadLumFetch == \E t \in Threads : thread_lum_fetch(t) /\ UNCHANGED untouched

ThreadLumRecord == \E t \in Threads : thread_lum_record(t) /\ UNCHANGED untouched

ThreadLumWriteCache == \E t \in Threads : thread_lum_write_cache(t) /\ UNCHANGED untouched

WhichTableReturn == \E t \in Threads : which_table_return(t) /\ UNCHANGED untouched

NextConc ==
    \/ WhichTableCall
    \/ WhichTableLookup
    \/ WhichTableLookup2
    \/ ThreadLoadMappings
    \/ ThreadGenesymbol5Create
    \/ ThreadGenesymbol5Fill
    \/ ThreadLumCreate
    \/ ThreadLumFromCache
    \/ ThreadLumFetch
    \/ ThreadLumRecord
    \/ ThreadLumWriteCache
    \/ WhichTableReturn

SpecConc == Init /\ [][NextConc]_vars

\* ------------------------------------------------------------------------
\* Properties of the resolution

\* the latest step was a map_name call
Called == last.op = "map_name"

\* the row of an id in a registered table, {} when absent
Row(key, id) == IF key \in DOMAIN tables THEN Get(tables[key].data, id) ELSE {}

\* C1: for every name and every name type other than 'uniprot',
\* map_name(name, ns, ns) returns exactly {name}, raises nothing, makes no
\* lookup and no load, and leaves the registry and the cache as they were.
C1_SameTypeReturnsName ==
    [][(ncalls' # ncalls /\ last'.op = "map_name"
            /\ last'.name_type = last'.target_name_type /\ last'.name_type # "uniprot")
        => (/\ last'.res = {last'.name}
            /\ ~last'.raised
            /\ last'.trace = <<>>
            /\ last'.fetched = <<>>
            /\ tables' = tables
            /\ cache' = cache)]_vars

\* a same-type call on a registry that already holds tables
C1_Witness ==
    /\ Called
    /\ last.name_type = last.target_name_type
    /\ last.name_type # "uniprot"
    /\ last.res = {last.name}
    /\ tables # EmptyDict

\* the table a RefSeq call of the latest step translates with
LastKey == get_table_key(last.name_type, last.target_name_type, last.ncbi_tax_id)

LastStem == split_0(last.name, ".")

\* the latest call is a non-strict RefSeq call for a versioned name S.v,
\* whose table has no row for S.v but a row for S
RefSeqStemCase ==
    /\ Called
    /\ last.name_type \in RefSeqTypes
    /\ last.name_type # last.target_name_type
    /\ ~last.strict
    /\ LastKey \in DOMAIN tables
    /\ LastStem # last.name
    /\ Row(LastKey, last.name) = {}
    /\ Row(LastKey, LastStem) # {}

\* no id of the set is a secondary accession or has a TrEMBL row
NoAlias(T) ==
    \A u \in T :
        /\ Row(get_table_key("uniprot-sec", "uniprot-pri", 0), u) = {}
        /\ Row(get_table_key("uniprot-sec", "uniprot-pri", 0), upper(u)) = {}
        /\ Row(get_table_key("trembl", "genesymbol", last.ncbi_tax_id), u) = {}
        /\ Row(get_table_key("trembl", "genesymbol", last.ncbi_tax_id), upper(u)) = {}

\* C10: RefSeq fallback.  For a RefSeq origin and a versioned name S.v in
\* non-strict mode, when the table has no row for S.v but maps the stem S to
\* T, the mapped names handed to the clean-up are T; the call returns T for
\* a target other than UniProt, and for UniProt the ids of T that match the
\* accession pattern when none of them has an alias to follow.
C10_RefSeqStemFallback ==
    RefSeqStemCase =>
        /\ ~last.raised
        /\ last.orig = Row(LastKey, LastStem)
        /\ (last.target_name_type # "uniprot" => last.res = Row(LastKey, LastStem))
        /\ (last.target_name_type = "uniprot" /\ NoAlias(Row(LastKey, LastStem))
                => last.res = {u \in Row(LastKey, LastStem) : reuniprot_match(u)})

C10_Witness ==
    /\ RefSeqStemCase
    /\ last.res = Row(LastKey, LastStem)
    /\ last.res # {}



\* the latest call has the arguments of the first call of the behaviour
SameAsFirst ==
    /\ Called
    /\ ncalls > 1
    /\ first.op = "map_name"
    /\ last.name = first.name
    /\ last.name_type = first.name_type
    /\ last.target_name_type = first.target_name_type
    /\ last.ncbi_tax_id = first.ncbi_tax_id
    /\ last.strict = first.strict

\* C2: map_name is deterministic.  A call with the arguments of an earlier
\* call, made while the sources yield the same data, returns the same set,
\* whichever tables the registry held before each of the two calls.
C2_Deterministic ==
    SameAsFirst => (last.res = first.res /\ last.raised = first.raised)



\* ------------------------------------------------------------------------
\* Properties of the table lifetime

\* C3: eviction removes expired tables.  Once a cleanup period has elapsed
\* at a time when a table had not been used for longer than its lifetime,
\* the table is absent from the registry.
C3_ExpiredRemoved ==
    \A k \in DOMAIN tables :
        ~(swept_at >= 0 /\ swept_at - tables[k].last_used > tables[k].lifetime)

ServedFromCache == reader.kind # "none" /\ reader.from_cache /\ ~reader.fetched

C8_SecondLoadFromCache ==
    (reader.kind # "none" /\ reader.known /\ reader.use_cache) => ServedFromCache

\* C9: no stale cache data.  Source specs that differ have different cache
\* file names, and a table taken from the cache was written for the spec
\* of the load that takes it.
C9_NoStaleCache ==
    /\ \A p, q \in files : p[1] # q[1] => p[2] # q[2]
    /\ ServedFromCache => \A f \in reader.file : written[f].spec \in reader.specs

\* ------------------------------------------------------------------------
\* Properties of concurrent callers

\* thread t has registered the table under key and is still filling it
Filling(t, key) ==
    \/ pc[t] \in {"lum_from_cache", "lum_fetch", "lum_records"} /\ key = Key(t)
    \/ pc[t] = "genesymbol5_fill" /\ key = get_table_key("genesymbol5", "uniprot", 0)

\* which_table is about to return to thread r the table registered under
\* r's key
Returning(r) == pc[r] = "return" /\ Key(r) \in DOMAIN tables

\* C5: build-once under concurrency.  However the first lookups of the
\* callers for one table key interleave, the source of the key is read at
\* most once.
C5_BuildOnce == \A k \in DOMAIN nfetch : nfetch[k] <= 1

\* C6: publication of a table is atomic for readers.  which_table never
\* returns to a caller a table that another thread has registered and is
\* still filling.
C6_AtomicPublication ==
    \A t \in Threads, r \in Threads :
        (r # t /\ Returning(r)) => ~Filling(t, Key(r))

\* ------------------------------------------------------------------------
\* Properties of the fallback chain

\* the lookup of an id in the table of the latest call
LastLookup(id) == <<id, last.name_type, last.target_name_type>>

\* the name and the name types of the i-th lookup of the latest call
Looked(i) == <<last.trace[i][1], last.trace[i][2], last.trace[i][3]>>

\* the latest call is a RefSeq call whose table has no row for the name
RefSeqNoExactRow ==
    /\ Called
    /\ last.name_type \in RefSeqTypes
    /\ last.name_type # last.target_name_type
    /\ ~last.raised
    /\ Row(LastKey, last.name) = {}

\* the spellings map_name looks up after map_refseq has returned nothing
CaseVariants(name) == {name, upper(name), capitalize(name), lower(name)}

\* C11 as stated: for a RefSeq origin the exact name is looked up first and,
\* when that lookup is empty, the name with its version suffix stripped is
\* looked up next, whether strict is true or false.
C11_StemLookupInStrictMode ==
    RefSeqNoExactRow =>
        /\ Len(last.trace) >= 2
        /\ Looked(1) = LastLookup(last.name)
        /\ Looked(2) = LastLookup(LastStem)

\* C11: for a RefSeq origin the exact name is looked up first, whether
\* strict is true or false.  When that lookup is empty the name with its
\* version suffix stripped is looked up next in non-strict mode only: in
\* strict mode map_refseq makes no second lookup, the next lookup is the
\* upper-cased name, and the stem is never looked up unless it is one of the
\* case variants of the name.
C11_StrictDisablesStemLookup ==
    RefSeqNoExactRow =>
        /\ Len(last.trace) >= 2
        /\ Looked(1) = LastLookup(last.name)
        /\ (~last.strict => Looked(2) = LastLookup(LastStem))
        /\ (last.strict => Looked(2) = LastLookup(upper(last.name)))
        /\ ((last.strict /\ LastStem \notin CaseVariants(last.name))
                => \A i \in 1..Len(last.trace) : Looked(i) # LastLookup(LastStem))

\* a strict call for a versioned name whose stem has a row: nothing is
\* returned
C11_Witness ==
    /\ RefSeqNoExactRow
    /\ last.strict
    /\ LastStem # last.name
    /\ Row(LastKey, LastStem) # {}
    /\ last.res = {}

\* the row of an id in a table of the registry tbls, {} when absent
RowIn(tbls, key, id) == IF key \in DOMAIN tbls THEN Get(tbls[key].data, id) ELSE {}

\* the table of a name type for the target and organism of call c
KeyOf(c, name_type) == get_table_key(name_type, c.target_name_type, c.ncbi_tax_id)

\* in the registry tbls no lookup of call c before the synonym lookup finds
\* a row: the name and its case variants in the gene symbol table
NoDirectRow(tbls, c) ==
    \A v \in CaseVariants(c.name) : RowIn(tbls, KeyOf(c, "genesymbol"), v) = {}

\* the ids a result set is narrowed to when the target is UniProt and none
\* of them has an alias to follow
Finalized(c, T) ==
    IF c.target_name_type = "uniprot" THEN {u \in T : reuniprot_match(u)} ELSE T

\* no id of T is a secondary accession or has a TrEMBL row in tbls
NoAliasIn(tbls, c, T) ==
    \A u \in T : \A v \in {u, upper(u)} :
        /\ RowIn(tbls, get_table_key("uniprot-sec", "uniprot-pri", 0), v) = {}
        /\ RowIn(tbls, get_table_key("trembl", "genesymbol", c.ncbi_tax_id), v) = {}

\* call c returned T after the finalization
ReturnsFinalized(tbls, c, T) ==
    /\ ~c.raised
    /\ c.orig = T
    /\ (c.target_name_type # "uniprot" \/ NoAliasIn(tbls, c, T)) => c.res = Finalized(c, T)

\* the latest call is a gene symbol call where the direct, the
\* case-variant, the synonym and the '<name>1' lookups found no row, while
\* the 'genesymbol5' table for the target has a row for the name.  The
\* tables a call loads are filled from their sources when they are
\* registered and the lookups leave their rows alone, so the registry after
\* the call has the rows the lookups met.
SalvageCase ==
    /\ Called
    /\ last.name_type = "genesymbol"
    /\ last.target_name_type # "genesymbol"
    /\ NoDirectRow(tables, last)
    /\ Row(KeyOf(last, "genesymbol-syn"), last.name) = {}
    /\ Row(KeyOf(last, "genesymbol"), fmt_name1(last.name)) = {}
    /\ Row(KeyOf(last, "genesymbol5"), last.name) # {}

\* C12: gene-symbol salvage.  For origin 'genesymbol', when the direct, the
\* case-variant, the synonym and the '<name>1' lookups are all empty and
\* the 'genesymbol5' table has a row for the name mapping to T, map_name
\* with strict=false returns T after the finalization, and map_name with
\* strict=true returns the empty set.
C12_GeneSymbolSalvage ==
    SalvageCase =>
        IF last.strict THEN ~last.raised /\ last.res = {} /\ last.orig = {}
        ELSE ReturnsFinalized(tables, last, Row(KeyOf(last, "genesymbol5"), last.name))

\* a non-strict call has returned the row of the 'genesymbol5' table, the
\* gene symbol tables having no row for the name
C12_Witness ==
    /\ SalvageCase
    /\ ~last.strict
    /\ last.fetched = <<>>
    /\ last.res = Row(KeyOf(last, "genesymbol5"), last.name)

\* a lookup of the latest call for its own target: the lookups of the
\* finalization are for the targets 'uniprot-pri', 'genesymbol' and
\* 'swissprot' of a call whose target is 'uniprot'
IsMain(e) == e[3] = last.target_name_type

\* the lookups the latest call made before the finalization, in order
MainTrace == SelectSeq(last.trace, IsMain)

\* the lookups of the RefSeq handling of call c, in order
RefSeqSlots(c) ==
    <<<<c.name, c.name_type>>, <<split_0(c.name, "."), c.name_type>>>>
    \o [n \in 1..49 |-> <<fmt_stem_n(split_0(c.name, "."), n - 1), c.name_type>>]

\* the attempts of map_name in their order: <<name, name type>> looked up
AttemptOrder(c) ==
    (IF c.name_type \in RefSeqTypes THEN RefSeqSlots(c) ELSE <<<<c.name, c.name_type>>>>)
    \o <<<<upper(c.name), c.name_type>>,
         <<capitalize(c.name), c.name_type>>,
         <<lower(c.name), c.name_type>>,
         <<c.name, "genesymbol-syn">>,
         <<fmt_name1(c.name), "genesymbol">>,
         <<c.name, "genesymbol5">>,
         <<c.name, "mir-name">>>>

RECURSIVE InOrder(_, _, _, _)
\* the lookups main[i..] are, in order, among the attempts slots[j..]
InOrder(main, i, slots, j) ==
    IF i > Len(main) THEN TRUE
    ELSE IF j > Len(slots) THEN FALSE
    ELSE IF <<main[i][1], main[i][2]>> = slots[j] THEN InOrder(main, i + 1, slots, j + 1)
    ELSE InOrder(main, i, slots, j + 1)

\* every lookup followed by another one was empty; the probing of the
\* version suffixes, lookups 3 to 51 of a RefSeq call, is one attempt
ShortCircuits(main, c) ==
    \A i \in 1..Len(main) : \A j \in (i + 1)..Len(main) :
        \/ main[i][4] = {}
        \/ c.name_type \in RefSeqTypes /\ i >= 3 /\ j <= 51

\* what the lookups found, all taken together
Found(main) == UNION {main[i][4] : i \in 1..Len(main)}

\* the latest call is a translation to another name type that raised nothing
Translation ==
    /\ Called
    /\ last.name_type # last.target_name_type
    /\ ~last.raised

\* C13: the fallback attempts of map_name are made in a fixed order (direct
\* lookup or RefSeq handling, upper-cased name, capitalized name, lower-cased
\* name, gene-symbol synonym, '<name>1', genesymbol5, miRNA hairpin name) and
\* short-circuit: an attempt is made only if every earlier attempt returned
\* an empty result, and the result of the first non-empty attempt is the one
\* passed on to the finalization.
C13_OrderedShortCircuit ==
    Translation =>
        /\ InOrder(MainTrace, 1, AttemptOrder(last), 1)
        /\ ShortCircuits(MainTrace, last)
        /\ last.orig = Found(MainTrace)

\* the hairpin attempt, the last of the chain, is the first to find a row
C13_Witness ==
    /\ Translation
    /\ last.name_type = "mir-mat-name"
    /\ Len(MainTrace) = 5
    /\ MainTrace[5][2] = "mir-name"
    /\ MainTrace[5][4] # {}
    /\ last.res = MainTrace[5][4]

\* the latest call is a gene symbol call where the direct and the
\* case-variant lookups found no row and the synonym table has a row for
\* the name
SynonymCase ==
    /\ Called
    /\ last.name_type = "genesymbol"
    /\ last.target_name_type # "genesymbol"
    /\ NoDirectRow(tables, last)
    /\ Row(KeyOf(last, "genesymbol-syn"), last.name) # {}

\* no lookup of '<name>1' as a gene symbol and none against 'genesymbol5'
\* among the lookups main
NoSalvageLookup(main, c) ==
    \A i \in 1..Len(main) :
        /\ main[i][2] # "genesymbol5"
        /\ <<main[i][1], main[i][2]>> # <<fmt_name1(c.name), "genesymbol">>

\* C14: the gene-symbol synonym fallback is independent of strict mode.  For
\* origin 'genesymbol', when the direct and case-variant lookups are empty
\* and the 'genesymbol-syn' table maps the name to a non-empty set T,
\* map_name returns T after the finalization for strict=true as well as
\* strict=false, and no lookup with '<name>1' or against 'genesymbol5' is
\* made.
C14_SynonymWhateverStrict ==
    SynonymCase =>
        /\ ReturnsFinalized(tables, last, Row(KeyOf(last, "genesymbol-syn"), last.name))
        /\ NoSalvageLookup(MainTrace, last)

\* a strict call answered by the synonym table
C14_Witness ==
    /\ SynonymCase
    /\ last.strict
    /\ last.res = Row(KeyOf(last, "genesymbol-syn"), last.name)
    /\ MainTrace[Len(MainTrace)][2] = "genesymbol-syn"

\* the secondary-to-primary table: primary_uniprot asks for organism 0
SecKey == get_table_key("uniprot-sec", "uniprot-pri", 0)

\* the latest call has gone through the finalization for the target
\* 'uniprot' with some candidate ids
Finalization ==
    /\ Called
    /\ last.target_name_type = "uniprot"
    /\ ~last.raised
    /\ last.orig # {}

\* what replaces candidate u when only its own row counts
PrimaryOfExact(u) == IF Row(SecKey, u) # {} THEN Row(SecKey, u) ELSE {u}

\* what replaces candidate u: its row or, when it has none, the row of the
\* upper-cased u
PrimaryOf(u) == IF Row(SecKey, u) # {} THEN Row(SecKey, u) ELSE PrimaryOfExact(upper(u))

GenesOf(u) == Row(get_table_key("trembl", "genesymbol", last.ncbi_tax_id), u)

\* the reviewed accessions of the gene symbols of u
ReviewedOf(u) ==
    UNION {Row(get_table_key("genesymbol", "swissprot", last.ncbi_tax_id), g) : g \in GenesOf(u)}

\* what the bridge puts in the place of candidate u
BridgeOf(u) == IF ReviewedOf(u) # {} THEN ReviewedOf(u) ELSE {u}

\* C16: unreviewed-to-reviewed bridge.  For every id handed to the bridge,
\* if any gene symbol of the id maps to a reviewed accession then the id is
\* replaced by the reviewed accessions found, and if none does the id is
\* kept, for ids with more than one gene symbol and whatever order the gene
\* symbols are visited in; the ids of accession format are returned.
C16_BridgeAnyOrder ==
    Finalization =>
        last.res = {x \in UNION {BridgeOf(u) : u \in last.pri} : reuniprot_match(x)}

\* C17: whenever the target namespace is 'uniprot', every element of the
\* set returned by map_name matches the accession pattern, on every path
\* through the fallback chain and in the identity case where the origin is
\* 'uniprot' too.
C17_ResultsAreAccessions ==
    (Called /\ last.target_name_type = "uniprot") =>
        \A u \in last.res : reuniprot_match(u)

\* the identity case with a name that is no accession: nothing is returned
C17_Witness ==
    /\ Called
    /\ last.name_type = "uniprot"
    /\ last.target_name_type = "uniprot"
    /\ ~last.raised
    /\ last.orig = {last.name}
    /\ last.name \in last.pri
    /\ ~reuniprot_match(last.name)
    /\ last.res = {}

\* ------------------------------------------------------------------------
\* Properties of the calls with a collection argument

\* the results of map_name for the name and each name type of a list,
\* each evaluated on its own
UnionOverNameTypes(c) ==
    UNION {map_name(Start, c.name, c.many[i], c.target_name_type, c.ncbi_tax_id, c.strict).res :
              i \in 1..Len(c.many)}

\* the results of map_name for each name of a list
UnionOverNames(c) ==
    UNION {map_name(Start, c.many[i], c.name_type, c.target_name_type, c.ncbi_tax_id, c.strict).res :
              i \in 1..Len(c.many)}

\* C18: when the origin namespace argument is a collection of namespaces,
\* map_name returns the union, over each member namespace ns, of
\* map_name(name, ns, target, organism, strict) evaluated independently, for
\* collections of one, two or more namespaces.
C18_UnionOverNameTypes ==
    last.op = "map_name_types" =>
        /\ ~last.raised
        /\ last.res = UnionOverNameTypes(last)

\* C19: map_names(names, ...) returns the union of map_name(n, ...) over
\* every n in names, for every finite collection of names; for the empty
\* collection the result is the empty set.
C19_UnionOverNames ==
    last.op = "map_names" =>
        /\ ~last.raised
        /\ last.res = UnionOverNames(last)

\* ------------------------------------------------------------------------
\* Properties of the failures

\* C20: errors are contained at the table-build boundary.  A missing source
\* file or generator, a remote service failure or a corrupt cache entry met
\* while resolving one id never raises out of map_name or map_names: the
\* affected lookup contributes the empty set, and a batch returns the ids
\* it can resolve.
C20_ErrorsContained ==
    /\ (Called /\ last.met # {}) => (~last.raised /\ last.orig = Found(MainTrace))
    /\ last.op = "map_names" => (~last.raised /\ last.res = UnionOverNames(last))

\* the registered tables of the name types of the i-th lookup that hold
\* its result as the row of its name
Holding(i) ==
    {k \in DOMAIN tables : /\ k[1] = last.trace[i][2]
                           /\ k[2] = last.trace[i][3]
                           /\ Get(tables[k].data, last.trace[i][1]) = last.trace[i][4]}

\* C21: every lookup of a call hands back a set: the empty set when no table
\* is resolved or the table has no row for the id, the set stored for the id
\* otherwise; the value is of the same kind, a set, in all three cases.
C21_LookupReturnsSet ==
    Called => \A i \in 1..Len(last.trace) :
                /\ last.trace[i][5] = "set"
                /\ last.trace[i][4] # {} => Holding(i) # {}

\* the latest call met a source that did not answer
FetchFailed(c) == c.op = "map_name" /\ "remote failure" \in c.met

\* C22: a build whose source fetch fails or yields no data publishes
\* nothing: no step leaves in the registry a new table without rows, and a
\* call whose fetch failed leaves no table under the key it looked up.
C22_FailedBuildPublishesNothing ==
    [][/\ \A k \in DOMAIN tables' \ DOMAIN tables : tables'[k].data # EmptyDict
       /\ FetchFailed(last') =>
            <<last'.name_type, last'.target_name_type, get_tax_id(last'.ncbi_tax_id)>>
                \notin DOMAIN tables' \ DOMAIN tables]_vars

\* a cache file of load_uniprot_mappings is named after two fields, one of
\* MapReader after more
BulkFile(f) == Len(f) = 2

\* the cache file f holds a forward map with rows and, for a bidirectional
\* table, a reverse map with rows
FullEntry(f) ==
    IF BulkFile(f)
    THEN /\ cache[f].to # EmptyDict
         /\ f[2] = ToString(TRUE) => cache[f].from # EmptyDict
    ELSE /\ Truthy(cache[f][1])
         /\ f[3] = ToString(TRUE) => Truthy(cache[f][2])

\* C23: a cache entry is written only after a fully successful build: every
\* entry of the cache holds a forward map with rows and, for a bidirectional
\* table, a reverse map with rows.
C23_CacheHoldsFullBuilds == \A f \in DOMAIN cache : FullEntry(f)

\* C24: a cache entry that cannot be read counts as a cache miss: a load
\* that reads one does not raise and reads the source instead, and the
\* lookup that made the load completes.
C24_CorruptCacheIsMiss ==
    [][/\ \A f \in DOMAIN cache :
            (/\ ReaderFile(f) /\ CorruptPair(cache[f])
             /\ reader' # reader /\ reader'.kind = "MapReader" /\ f \in reader'.file)
                => (~reader'.raised /\ reader'.fetched)
       /\ (last' # last /\ last'.op = "map_name" /\ "corrupt cache" \in last'.met)
                => (~last'.raised /\ last'.fetched # <<>>)]_vars

\* the key of the first table the call c asks for, and its reverse
AskedKey(c) == <<c.name_type, c.target_name_type, get_tax_id(c.ncbi_tax_id)>>

AskedKeyRev(c) == <<c.target_name_type, c.name_type, get_tax_id(c.ncbi_tax_id)>>

\* C25: when the registry holds no table under (a, b, organism) but one under
\* (b, a, organism), the lookup of an id of type a derives the table: no
\* source is read and the cache is left alone, the table published under
\* (a, b, organism) is the inversion of the (b, a, organism) table, the lookup
\* is answered from it, and the (b, a, organism) table stays in place.
C25_ReverseDerivation ==
    [][(/\ last' # last /\ last'.op = "map_name"
        /\ last'.name_type # last'.target_name_type
        /\ AskedKey(last') \notin DOMAIN tables
        /\ AskedKeyRev(last') \in DOMAIN tables)
        => (/\ ~last'.raised
            /\ \A i \in 1..Len(last'.fetched) : last'.fetched[i] # AskedKey(last')
            /\ last'.target_name_type # "uniprot" => (last'.fetched = <<>> /\ cache' = cache)
            /\ AskedKey(last') \in DOMAIN tables'
            /\ AskedKeyRev(last') \in DOMAIN tables'
            /\ tables'[AskedKey(last')].data = swap_dict(tables[AskedKeyRev(last')].data)
            /\ tables'[AskedKeyRev(last')].data = tables[AskedKeyRev(last')].data
            /\ last'.trace[1][4] = Get(swap_dict(tables[AskedKeyRev(last')].data), last'.trace[1][1]))]_vars

\* the latest load was one of a reader that went to the original source
ReadFromSource(r) == r.kind = "MapReader" /\ r.fetched

\* C26 as stated: reading a table from its original source leaves the cache
\* untouched; the load deletes no cache entry.
C26_SourceReadLeavesCache == ReadFromSource(reader) => reader.removed = {}

\* C26: reading a table from its original source first removes the cache
\* file of the table when there is one, and reads and writes no cache file:
\* the load removes its own file only, leaves every other file of the cache
\* as it was, and its own file, when it exists afterwards, holds the pair
\* written after the build.
C26_SourceReadDropsOwnEntry ==
    [][(reader' # reader /\ ReadFromSource(reader'))
        => (/\ reader'.removed = reader'.own \cap DOMAIN cache
            /\ \A f \in (DOMAIN cache) \ reader'.own :
                    f \in DOMAIN cache' /\ cache'[f] = cache[f]
            /\ \A f \in (DOMAIN cache') \ DOMAIN cache : f \in reader'.own
            /\ \A f \in reader'.own \cap DOMAIN cache' : cache'[f] = reader'.pair)]_vars

\* a load that did not consult the cache read the source and removed the
\* cache file an earlier load had written
C26_Witness ==
    /\ ReadFromSource(reader)
    /\ reader.removed # {}
    /\ reader.removed = reader.own
    /\ ~reader.from_cache

\* the queries one load of the bulk-list loader makes: the list of
\* accessions when the target is not 'uniprot', and the table
Queries(r) == IF r.target_name_type = "uniprot" THEN 1 ELSE 2

\* C27 as stated: one table load sends at most 3 requests to the remote
\* service, then gives up and reports the failure.
C27_AtMostThreeRequests ==
    reader.kind = "uniprotlist" =>
        /\ reader.requests <= 3
        /\ (~reader.from_cache /\ ~reader.loaded) => reader.errors > 0

\* C27: the requests of the bulk-list loader are bounded: every query is
\* sent once and at most 3 more times while there is no response, which is
\* at most 4 requests a query and 8 a table load; a load that got no table
\* has logged the failure once and ends there.
C27_RequestsBounded ==
    reader.kind = "uniprotlist" =>
        /\ reader.requests <= (1 + list_retries) * Queries(reader)
        /\ (~reader.from_cache /\ ~reader.loaded) => (reader.errors = 1 /\ reader.raised)
        /\ reader.loaded => ~reader.raised

\* a load whose first query was answered at the last retry and whose second
\* query was never answered
C27_Witness ==
    /\ reader.kind = "uniprotlist"
    /\ reader.requests = (1 + list_retries) * 2
    /\ reader.errors = 1
    /\ ~reader.loaded

\* the key of the table the i-th lookup of call c asked which_table for
LookupKey(c, i) == <<c.trace[i][2], c.trace[i][3], get_tax_id(c.ncbi_tax_id)>>

C29_LookupsLeaveRows ==
    [][(last' # last /\ last'.op \in {"map_name", "map_names", "map_name_types"})
        => \A k \in DOMAIN tables :
                /\ k \in DOMAIN tables'
                /\ tables'[k].data = tables[k].data]_vars

\* the first load of call c read the source registered for the pair of name
\* types the call asked for, and nothing failed
LoadedAsked(c) ==
    /\ c.op = "map_name" /\ ~c.raised /\ c.met = {}
    /\ c.name_type # c.target_name_type
    /\ Len(c.fetched) > 0
    /\ \/ /\ <<c.name_type, c.target_name_type>> \in DOMAIN resources
          /\ c.fetched[1][1] = c.name_type /\ c.fetched[1][2] = c.target_name_type
       \/ /\ c.name_type \in DOMAIN uniprot_list_names /\ c.target_name_type = "uniprot"
          /\ c.fetched[1][1] = "uniprot_idmap_ftp"

\* which_table(a, b, organism, load = False) in the registry reg
Resolved(reg, c) ==
    which_table([Start EXCEPT !.tables = reg], c.name_type, c.target_name_type,
                FALSE, c.ncbi_tax_id).tbl

\* C30: a successful build is published under the key it was asked for:
\* when the registry has neither (a, b, organism) nor its reverse and the
\* source of (a, b) loads, then after the call the table is in the registry
\* under that key, the lookup was answered from it, and which_table with
\* load = False returns it.
C30_PublishedUnderAskedKey ==
    [][(/\ last' # last /\ LoadedAsked(last')
        /\ AskedKey(last') \notin DOMAIN tables
        /\ AskedKeyRev(last') \notin DOMAIN tables)
        => (/\ AskedKey(last') \in DOMAIN tables'
            /\ last'.trace[1][4] = Get(tables'[AskedKey(last')].data, last'.trace[1][1])
            /\ Resolved(tables', last') = {AskedKey(last')})]_vars

\* ------------------------------------------------------------------------
\* Properties of the file loader

\* the latest load was one of a reader of a file; the parameters of the
\* load are read off its source spec
FileLoad(r) == r.kind = "MapReader" /\ \A sp \in r.specs : sp[4] = ToString("file")

LoadBi(r) == \A sp \in r.specs : sp[7] = ToString(TRUE)

LoadHeader(r) == CHOOSE h \in 0..4 : \A sp \in r.specs : sp[13] = ToString(h)

LoadInput(r) == CHOOSE f \in DOMAIN mapping_files : \A sp \in r.specs : sp[15] = ToString(f)

\* the pairs of the stream: the records after the header that have both
\* columns
Stream(r) ==
    {mapping_files[LoadInput(r)][i] :
        i \in {j \in (LoadHeader(r) + 1)..Len(mapping_files[LoadInput(r)]) :
                    Len(mapping_files[LoadInput(r)][j]) = 2}}

\* the latest load built a table from a file
BuiltFromFile == FileLoad(reader) /\ ~reader.raised /\ Truthy(reader.pair[1])

\* t is in d[o]
Maps(d, o, t) == o \in DOMAIN d /\ t \in d[o]

\* the ids of the map d and of the stream of the load r
Mentioned(d, r) ==
    (DOMAIN d) \cup UNION {d[x] : x \in DOMAIN d}
        \cup {p[1] : p \in Stream(r)} \cup {p[2] : p \in Stream(r)}

\* C31: after a table is built from a pair stream, t is in forward[o]
\* exactly when the pair (o, t) occurred in the stream; for a bidirectional
\* spec o is in reverse[t] exactly when t is in forward[o]; otherwise the
\* reader has no reverse map and gives no reverse table.
C31_BidirectionalBuild ==
    BuiltFromFile =>
        /\ \A d \in reader.pair[1] : \A o, t \in Mentioned(d, reader) :
                Maps(d, o, t) <=> <<o, t>> \in Stream(reader)
        /\ LoadBi(reader) =>
                /\ reader.pair[2] # None
                /\ \A d \in reader.pair[1], e \in reader.pair[2] :
                     \A o, t \in Mentioned(d, reader) \cup Mentioned(e, reader) :
                        Maps(e, t, o) <=> Maps(d, o, t)
                /\ \A tb \in get_mapping_tables(reader.pair[1], reader.pair[2], TRUE)[2] :
                        tb.data \in reader.pair[2]
        /\ ~LoadBi(reader) =>
                /\ reader.pair[2] = None
                /\ get_mapping_tables(reader.pair[1], reader.pair[2], FALSE)[2] = None

\* a bidirectional table was built from a file where one target has two
\* origins
C31_Witness ==
    /\ BuiltFromFile /\ LoadBi(reader) /\ reader.fetched
    /\ \E e \in reader.pair[2] : \E t \in DOMAIN e : Cardinality(e[t]) > 1

\* the records of the load r after its header
AfterHeader(r) ==
    {j \in 1..Len(mapping_files[LoadInput(r)]) : j > LoadHeader(r)}

\* a record with too few fields to hold both columns is after the header
ShortRecord(r) ==
    \E j \in AfterHeader(r) : Len(mapping_files[LoadInput(r)][j]) < 2

\* C36: a file load skips the first `header` records and every later record
\* that is too short to hold both columns, without an error, and every
\* record that has both columns gives exactly the pair of its two columns.
C36_ShortRecordsSkipped ==
    FileLoad(reader) =>
        /\ ~reader.raised
        /\ (reader.fetched /\ Truthy(reader.pair[1])) =>
              \A d \in reader.pair[1] :
                 {<<o, t>> \in Mentioned(d, reader) \X Mentioned(d, reader) : Maps(d, o, t)}
                    = Stream(reader)

\* the latest call is one of map_name for a RefSeq origin, not strict, whose
\* lookups of the exact name and of the stem were both made and both empty
ProbingCase ==
    /\ Called
    /\ last.op = "map_name"
    /\ last.name_type \in RefSeqTypes
    /\ last.name_type # last.target_name_type
    /\ ~last.strict
    /\ Len(last.trace) >= 2
    /\ last.trace[1][1] = last.name /\ last.trace[1][4] = {}
    /\ last.trace[2][1] = split_0(last.name, ".") /\ last.trace[2][4] = {}

\* the lookup of the stem with the version number n, the (n + 3)th lookup
Probe(n) == last.trace[n + 3]

\* C32: RefSeq suffix probing.  For a RefSeq origin in non-strict mode, when
\* the lookups of the exact name and of the stem are empty, the stem is
\* looked up with every version number from 0 to 48, the mapped names are
\* the union of all these lookups, and no other version number is probed.
C32_RefseqProbing ==
    ProbingCase =>
        /\ ~last.raised
        /\ Len(last.trace) >= 51
        /\ \A n \in 0..48 :
              /\ Probe(n)[1] = fmt_stem_n(split_0(last.name, "."), n)
              /\ Probe(n)[2] = last.name_type
              /\ Probe(n)[3] = last.target_name_type
        /\ \A i \in 1..Len(last.trace) : \A n \in 49..99 :
              last.trace[i][1] # fmt_stem_n(split_0(last.name, "."), n)
        /\ UNION {Probe(n)[4] : n \in 0..48} # {}
              => last.orig = UNION {Probe(n)[4] : n \in 0..48}

\* the maps genesymbol5 reads for the organism tax: the gene symbol table and
\* the synonym table
Gs5Sources(tax) ==
    {tables[k].data : k \in {<<"genesymbol", "uniprot", tax>>,
                             <<"genesymbol-syn", "swissprot", tax>>} \cap DOMAIN tables}

\* the genesymbol5 table of the organism tax and both its sources are
\* registered
Gs5Built(tax) ==
    {<<"genesymbol5", "uniprot", tax>>, <<"genesymbol", "uniprot", tax>>,
     <<"genesymbol-syn", "swissprot", tax>>} \subseteq DOMAIN tables

\* the genesymbol5 map gs5 is the join of the symbols of the sources that
\* have at least `least` characters, by their first five characters
BucketJoin(gs5, sources, least) ==
    /\ \A src \in sources : \A s \in DOMAIN src :
          Len(s) >= least => src[s] \subseteq Get(gs5, first5(s))
    /\ \A b \in DOMAIN gs5 :
          gs5[b] \subseteq UNION {UNION {src[s] : s \in {x \in DOMAIN src :
                                                            Len(x) >= least /\ first5(x) = b}} :
                                   src \in sources}

\* C33 as stated: the genesymbol5 table is the join of every known symbol,
\* the symbols shorter than five characters included, by its first five
\* characters.
C33_EverySymbolBucketed ==
    \A k \in DOMAIN tables :
        (k[1] = "genesymbol5" /\ Gs5Built(k[3])) => BucketJoin(tables[k].data, Gs5Sources(k[3]), 0)

\* C33: the genesymbol5 table is the join, by the first five characters, of
\* the symbols of at least five characters of the gene symbol table and of
\* the synonym table: every target of such a symbol is in the bucket of the
\* symbol, and every entry of the table comes from such a symbol; a symbol
\* shorter than five characters gives no entry.
C33_LongSymbolsBucketed ==
    \A k \in DOMAIN tables :
        (k[1] = "genesymbol5" /\ Gs5Built(k[3])) => BucketJoin(tables[k].data, Gs5Sources(k[3]), 5)

\* a genesymbol5 table with a bucket is registered while a source has a
\* symbol shorter than five characters
C33_Witness ==
    \E k \in DOMAIN tables :
        /\ k[1] = "genesymbol5" /\ Gs5Built(k[3])
        /\ DOMAIN tables[k].data # {}
        /\ \E src \in Gs5Sources(k[3]) : \E s \in DOMAIN src : Len(s) < 5

\* the latest call asks for a pair of name types that has no registered
\* source while the reversed pair has one
OnlyReverseRegistered(c) ==
    /\ c.op = "map_name"
    /\ c.name_type # c.target_name_type
    /\ <<c.name_type, c.target_name_type>> \notin DOMAIN resources
    /\ <<c.target_name_type, c.name_type>> \in DOMAIN resources

\* C34: when only the reversed pair (b, a) has a registered source,
\* which_table(a, b, organism) builds the table from that source read in
\* both directions and returns a table for the direction asked, (a, b): the
\* call does not raise, the registry holds the table under (a, b, organism)
\* and its rows are the pairs of the source, inverted.
C34_BuiltFromReversedSource ==
    OnlyReverseRegistered(last) =>
        /\ ~last.raised
        /\ AskedKey(last) \in DOMAIN tables
        /\ tables[AskedKey(last)].data =
              swap_dict(Accumulate(SourcePairs(<<last.target_name_type, last.name_type>>,
                                               get_tax_id(last.ncbi_tax_id))))

LumLoads(ac_typ, bi, tax) ==
    /\ ncalls' # ncalls
    /\ reader'.kind = "load_uniprot_mappings"
    /\ lum_spec(ac_typ, bi, tax) \in reader'.specs

\* C37: in load_uniprot_mappings every requested type that has a cache file
\* is loaded from that file, every type without one is loaded from the
\* remote source, and no requested type is skipped, whatever the number and
\* the order of the cached types in the list.
C37_NoTypeSkipped ==
    [][\A ac_typ \in DOMAIN uniprot_list_names, bi \in BOOLEAN, tax \in {default_organism, mouse} :
          LumLoads(ac_typ, bi, tax) =>
             /\ ~reader'.raised
             /\ <<ac_typ, "uniprot", tax>> \in DOMAIN tables'
             /\ IF lum_cachefile(ac_typ, bi, tax) \in DOMAIN cache
                THEN /\ lum_cachefile(ac_typ, bi, tax) \in reader'.file
                     /\ tables'[<<ac_typ, "uniprot", tax>>].data
                           = cache[lum_cachefile(ac_typ, bi, tax)].to
                ELSE reader'.fetched]_vars

\* the latest load is one by load_uniprot_mappings that built the table of
\* the type ac_typ from the records of the ID mapping file
BuiltFromRecords(ac_typ, bi, tax) ==
    /\ reader.kind = "load_uniprot_mappings"
    /\ lum_spec(ac_typ, bi, tax) \in reader.specs
    /\ reader.fetched /\ ~reader.raised
    /\ lum_cachefile(ac_typ, bi, tax) \notin reader.file
    /\ <<ac_typ, "uniprot", tax>> \in DOMAIN tables

\* the records of the ID mapping file for the type ac_typ
RecordsOf(ac_typ) ==
    {r \in 1..Len(uniprot_idmap_ftp) : uniprot_idmap_ftp[r][2] = uniprot_list_names[ac_typ]}

\* C38: load_uniprot_mappings loses no pair.  After the records are
\* processed, for every type and every record (accession, type, id) of the
\* type, the accession without its isoform suffix is in the entry of the id
\* without its version suffix: a later record for the same id adds to the
\* entry and resets nothing.
C38_NoPairLost ==
    \A ac_typ \in DOMAIN uniprot_list_names, bi \in BOOLEAN, tax \in {default_organism, mouse} :
        BuiltFromRecords(ac_typ, bi, tax) =>
            \A r \in RecordsOf(ac_typ) :
                split_0(uniprot_idmap_ftp[r][1], "-")
                    \in Get(tables[<<ac_typ, "uniprot", tax>>].data,
                            split_0(uniprot_idmap_ftp[r][3], "."))


====
